---------------------------- MODULE Spec2Model ----------------------------
(***************************************************************************)
(* Model of the Email-Security-System phishing detectors:                  *)
(*   src/enhanced_detector.py  EnhancedPhishingDetector                    *)
(*   src/phishing_detector.py  is_phishing_url and friends                 *)
(*                                                                         *)
(* A Python str is a sequence of one-character strings; a Python value is  *)
(* a tagged record so that None and str can be told apart.  The state is   *)
(* the detector object, the caller's current call and its outcome, the     *)
(* position of the batch loop, the findings of a call whose checks are     *)
(* evaluated one by one, and the locals of analyze_gmail_urls.             *)
(***************************************************************************)
EXTENDS Integers, Sequences, FiniteSets, TLC

VARIABLES
    suspicious_tlds,     \* detector.suspicious_tlds
    url_shorteners,      \* detector.url_shorteners
    legitimate_domains,  \* detector.legitimate_domains
    pc,                  \* "idle" | "batch" | "returned"
    op,                  \* name of the function called last
    arg,                 \* its argument
    ret,                 \* its return value (when exc = "none")
    exc,                 \* the exception type that escaped it, or "none"
    urls,                \* batch_analyze: the input sequence
    pos,                 \* batch_analyze: how many elements the loop has taken
    results,             \* batch_analyze: the results list built so far
    findings,            \* analysis['checks'] while its entries are evaluated
    used,                \* the detector has served a call before this one
    gmail_api_available, \* GMAIL_API_AVAILABLE as analyze_gmail_urls finds it
    service,             \* extractor.service is set
    message_ids,         \* analyze_gmail_urls: the ids get_recent_emails returned
    msg_pos,             \* analyze_gmail_urls: how many ids the loop has taken
    all_urls,            \* analyze_gmail_urls: all_urls
    suspicious_emails,   \* analyze_gmail_urls: suspicious_emails
    shown,               \* what the run reported last: demo data, no emails, results
    source_log           \* the calls made to the email source, with their outcomes

vars == <<suspicious_tlds, url_shorteners, legitimate_domains,
          pc, op, arg, ret, exc, urls, pos, results, findings, used,
          gmail_api_available, service, message_ids, msg_pos, all_urls,
          suspicious_emails, shown, source_log>>

---------------------------------------------------------------------------
(* Python values *)

PyNone == [t |-> "None", s |-> <<>>]
PyStr(s) == [t |-> "str", s |-> s]
IsStr(v) == v.t = "str"

---------------------------------------------------------------------------
(* str operations used by the detectors *)

Min(a, b) == IF a <= b THEN a ELSE b

DIGITS == {"0","1","2","3","4","5","6","7","8","9"}
LOWERS == {"a","b","c","d","e","f","g","h","i","j","k","l","m",
           "n","o","p","q","r","s","t","u","v","w","x","y","z"}
UPPERS == {"A","B","C","D","E","F","G","H","I","J","K","L","M",
           "N","O","P","Q","R","S","T","U","V","W","X","Y","Z"}
\* the whitespace str.strip() removes, restricted to the characters the
\* inputs can hold
WHITESPACE == {" ", "\t", "\n", "\r"}
\* urllib.parse.scheme_chars
SCHEME_CHARS == LOWERS \cup UPPERS \cup DIGITS \cup {"+", "-", "."}
\* the regular expression class \w, for \b
WORD_CHARS == LOWERS \cup UPPERS \cup DIGITS \cup {"_"}

LowerOf == [c \in UPPERS |->
    CASE c = "A" -> "a" [] c = "B" -> "b" [] c = "C" -> "c" [] c = "D" -> "d"
      [] c = "E" -> "e" [] c = "F" -> "f" [] c = "G" -> "g" [] c = "H" -> "h"
      [] c = "I" -> "i" [] c = "J" -> "j" [] c = "K" -> "k" [] c = "L" -> "l"
      [] c = "M" -> "m" [] c = "N" -> "n" [] c = "O" -> "o" [] c = "P" -> "p"
      [] c = "Q" -> "q" [] c = "R" -> "r" [] c = "S" -> "s" [] c = "T" -> "t"
      [] c = "U" -> "u" [] c = "V" -> "v" [] c = "W" -> "w" [] c = "X" -> "x"
      [] c = "Y" -> "y" [] c = "Z" -> "z"]

\* str.lower()
Lower(s) == [i \in 1..Len(s) |-> IF s[i] \in UPPERS THEN LowerOf[s[i]] ELSE s[i]]

\* s[i:] with a 1-based i
From(s, i) == SubSeq(s, i, Len(s))

\* s.startswith(p), s.endswith(p)
StartsWith(s, p) == Len(p) <= Len(s) /\ SubSeq(s, 1, Len(p)) = p
EndsWith(s, p) == Len(p) <= Len(s) /\ SubSeq(s, Len(s) - Len(p) + 1, Len(s)) = p

\* the 1-based positions at which sub occurs in s
Occurrences(s, sub) ==
    {i \in 1..(Len(s) - Len(sub) + 1) : SubSeq(s, i, i + Len(sub) - 1) = sub}

\* sub in s
Contains(s, sub) == Occurrences(s, sub) /= {}

\* s.find(sub, start): 1-based position of the first occurrence at or after
\* start, 0 when there is none
Find(s, sub, start) ==
    LET occ == {i \in Occurrences(s, sub) : i >= start}
    IN  IF occ = {} THEN 0 ELSE CHOOSE i \in occ : \A j \in occ : i <= j

\* s.count(c) for a one-character c
Count(s, c) == Cardinality({i \in 1..Len(s) : s[i] = c})

\* s.lstrip(), s.strip()
RECURSIVE LStrip(_)
LStrip(s) == IF s /= <<>> /\ s[1] \in WHITESPACE THEN LStrip(Tail(s)) ELSE s

RECURSIVE RStrip(_)
RStrip(s) ==
    IF s /= <<>> /\ s[Len(s)] \in WHITESPACE
    THEN RStrip(SubSeq(s, 1, Len(s) - 1)) ELSE s

Strip(s) == RStrip(LStrip(s))

\* s.replace(old, "") : non-overlapping occurrences removed left to right
RECURSIVE Remove(_, _)
Remove(s, old) ==
    LET i == Find(s, old, 1)
    IN  IF i = 0 THEN s
        ELSE SubSeq(s, 1, i - 1) \o Remove(From(s, i + Len(old)), old)

\* len([p for p in s.split(c) if p]) : the number of maximal runs without c
NonEmptyParts(s, c) ==
    Cardinality({i \in 1..Len(s) : s[i] /= c /\ (i = 1 \/ s[i - 1] = c)})

---------------------------------------------------------------------------
(* urllib.parse.urlparse, as the detectors use it (scheme, netloc, path,   *)
(* query of a str argument).  ok = FALSE stands for the ValueError         *)
(* "Invalid IPv6 URL".  The inputs of this model hold no "]" and are       *)
(* ASCII, so the bracketed-host and NFKC validations are never reached.    *)

\* urllib.parse._WHATWG_C0_CONTROL_OR_SPACE, restricted to the characters
\* the inputs can hold
C0_CONTROL_OR_SPACE == {" ", "\t", "\n", "\r"}
\* urllib.parse._UNSAFE_URL_BYTES_TO_REMOVE
UNSAFE_URL_BYTES == {"\t", "\r", "\n"}
\* urllib.parse.uses_params
USES_PARAMS == {<<>>, <<"f","t","p">>, <<"h","d","l">>, <<"p","r","o","s","p","e","r","o">>, <<"h","t","t","p">>, <<"i","m","a","p">>, <<"h","t","t","p","s">>,
                <<"s","h","t","t","p">>, <<"r","t","s","p">>, <<"r","t","s","p","s">>, <<"r","t","s","p","u">>, <<"s","i","p">>, <<"s","i","p","s">>, <<"m","m","s">>,
                <<"s","f","t","p">>, <<"t","e","l">>}

\* str(e) of the ValueError urlparse raises
INVALID_IPV6_URL == <<"I","n","v","a","l","i","d"," ","I","P","v","6"," ","U","R","L">>

RECURSIVE LStripC0(_)
LStripC0(s) ==
    IF s /= <<>> /\ s[1] \in C0_CONTROL_OR_SPACE THEN LStripC0(Tail(s)) ELSE s

IsSafeByte(c) == c \notin UNSAFE_URL_BYTES

\* the first position >= start of any of "/", "?", "#", else Len(s) + 1
NetlocEnd(s, start) ==
    LET hits == {i \in start..Len(s) : s[i] \in {"/", "?", "#"}}
    IN  IF hits = {} THEN Len(s) + 1 ELSE CHOOSE i \in hits : \A j \in hits : i <= j

\* urllib.parse._splitparams: <<path, params>>
SplitParams(url) ==
    LET slashes == {i \in 1..Len(url) : url[i] = "/"}
        last == IF slashes = {} THEN 1
                ELSE CHOOSE i \in slashes : \A j \in slashes : j <= i
        i == Find(url, <<";">>, last)
    IN  IF i = 0 THEN <<url, <<>>>>
        ELSE <<SubSeq(url, 1, i - 1), From(url, i + 1)>>

\* urlparse, last step: the params are split off the path
ParseResult(scheme, netloc, path, query, fragment, ok) ==
    [ok |-> ok, scheme |-> scheme, netloc |-> netloc,
     path |-> IF scheme \in USES_PARAMS /\ Contains(path, <<";">>)
              THEN SplitParams(path)[1] ELSE path,
     query |-> query, fragment |-> fragment]

\* if '?' in url: url, query = url.split('?', 1), with q = url.find('?')
SplitQuery(scheme, netloc, url, fragment, ok, q) ==
    ParseResult(scheme, netloc,
                IF q = 0 THEN url ELSE SubSeq(url, 1, q - 1),
                IF q = 0 THEN <<>> ELSE From(url, q + 1),
                fragment, ok)

\* if '#' in url: url, fragment = url.split('#', 1), with h = url.find('#')
SplitFragment(scheme, netloc, url, ok, h) ==
    SplitQuery(scheme, netloc,
               IF h = 0 THEN url ELSE SubSeq(url, 1, h - 1),
               IF h = 0 THEN <<>> ELSE From(url, h + 1),
               ok,
               Find(IF h = 0 THEN url ELSE SubSeq(url, 1, h - 1), <<"?">>, 1))

\* the netloc is known: the ValueError is raised when exactly one of "[" and
\* "]" occurs in it
CheckNetloc(scheme, netloc, url) ==
    SplitFragment(scheme, netloc, url,
                  Contains(netloc, <<"[">>) = Contains(netloc, <<"]">>),
                  Find(url, <<"#">>, 1))

\* if url[:2] == '//': netloc, url = _splitnetloc(url, 2), with delim the
\* end of the netloc
SplitNetloc(scheme, url, delim) ==
    IF StartsWith(url, <<"/","/">>)
    THEN CheckNetloc(scheme, SubSeq(url, 3, delim - 1), From(url, delim))
    ELSE CheckNetloc(scheme, <<>>, url)

\* the scheme is split off at the first ":" (position i) when everything
\* before it is a scheme character and the first character is a letter
SplitScheme(url, i) ==
    IF /\ i >= 2
       /\ url[1] \in LOWERS \cup UPPERS
       /\ \A k \in 1..(i - 1) : url[k] \in SCHEME_CHARS
    THEN SplitNetloc(Lower(SubSeq(url, 1, i - 1)), From(url, i + 1),
                     NetlocEnd(From(url, i + 1), 3))
    ELSE SplitNetloc(<<>>, url, NetlocEnd(url, 3))

\* leading C0 control characters and spaces, and then tab, CR and LF
\* anywhere, are dropped first
CleanUrl(u0) == SelectSeq(LStripC0(u0), IsSafeByte)

FindColon(url) == Find(url, <<":">>, 1)

UrlSplit(url) == SplitScheme(url, FindColon(url))

UrlParse(u0) == UrlSplit(CleanUrl(u0))

---------------------------------------------------------------------------
(* re and difflib helpers of the checks *)

\* re.match(r'\b(?:[0-9]{1,3}\.){3}[0-9]{1,3}\b', domain): a dotted quad at
\* the start of domain, followed by the end or by a non-word character
IsDigitRun(s, lo, n) == lo + n - 1 <= Len(s) /\ \A k \in lo..(lo + n - 1) : s[k] \in DIGITS
IsDotAt(s, i) == i <= Len(s) /\ s[i] = "."
MatchesIpPattern(domain) ==
    \E k1, k2, k3, k4 \in 1..3 :
        LET p2 == k1 + 2
            p3 == p2 + k2 + 1
            p4 == p3 + k3 + 1
            e  == p4 + k4
        IN  /\ IsDigitRun(domain, 1, k1)  /\ IsDotAt(domain, k1 + 1)
            /\ IsDigitRun(domain, p2, k2) /\ IsDotAt(domain, p2 + k2)
            /\ IsDigitRun(domain, p3, k3) /\ IsDotAt(domain, p3 + k3)
            /\ IsDigitRun(domain, p4, k4)
            /\ (e > Len(domain) \/ domain[e] \notin WORD_CHARS)

\* re.search(r'\d', domain)
HasDigit(s) == \E i \in 1..Len(s) : s[i] \in DIGITS

\* re.sub(r'^(www\.|m\.)', '', s)
StripPrefix(s) ==
    IF StartsWith(s, <<"w","w","w",".">>) THEN From(s, 5)
    ELSE IF StartsWith(s, <<"m",".">>) THEN From(s, 3)
    ELSE s

\* re.sub(r'\.(com|org|net|edu|gov)$', '', s)
COMMON_TLDS == {<<".","c","o","m">>, <<".","o","r","g">>, <<".","n","e","t">>, <<".","e","d","u">>, <<".","g","o","v">>}
StripTld(s) ==
    IF \E t \in COMMON_TLDS : EndsWith(s, t) THEN SubSeq(s, 1, Len(s) - 4) ELSE s

\* s.split('.')[0]
FirstLabel(s) ==
    LET i == Find(s, <<".">>, 1) IN IF i = 0 THEN s ELSE SubSeq(s, 1, i - 1)

\* difflib.SequenceMatcher.find_longest_match on a[alo..ahi], b[blo..bhi]
\* (inclusive, 1-based; no junk: autojunk needs len(b) >= 200).
\* RunLen: the length of the common run starting at a[i], b[j].
RECURSIVE RunLen(_, _, _, _, _, _)
RunLen(a, b, i, j, ahi, bhi) ==
    IF i > ahi \/ j > bhi \/ a[i] /= b[j] THEN 0
    ELSE 1 + RunLen(a, b, i + 1, j + 1, ahi, bhi)

SetMax(S) == CHOOSE x \in S : \A y \in S : y <= x
SetMin(S) == CHOOSE x \in S : \A y \in S : x <= y

\* the pairs of best that start earliest in a, and of those the one that
\* starts earliest in b
EarliestIn(best, i) == <<i, SetMin({p[2] : p \in {q \in best : q[1] = i}})>>
Earliest(best) == EarliestIn(best, SetMin({p[1] : p \in best}))

\* the longest of the runs lens, a function on the matching pairs
LongestOf(lens, k) == Earliest({p \in DOMAIN lens : lens[p] = k}) \o <<k>>
Longest(lens) == LongestOf(lens, SetMax({lens[p] : p \in DOMAIN lens}))

\* <<i, j, k>>: k maximal, then i minimal, then j minimal; k = 0 if no match
FindLongestMatch(a, b, alo, ahi, blo, bhi) ==
    IF \A p \in (alo..ahi) \X (blo..bhi) : a[p[1]] /= b[p[2]]
    THEN <<alo, blo, 0>>
    ELSE Longest([p \in {q \in (alo..ahi) \X (blo..bhi) : a[q[1]] = b[q[2]]} |->
                     RunLen(a, b, p[1], p[2], ahi, bhi)])

\* sum of the sizes of SequenceMatcher.get_matching_blocks()
RECURSIVE Matches(_, _, _, _, _, _)
RECURSIVE MatchesAround(_, _, _, _, _, _, _)
Matches(a, b, alo, ahi, blo, bhi) ==
    IF alo > ahi \/ blo > bhi THEN 0
    ELSE MatchesAround(a, b, alo, ahi, blo, bhi,
                       FindLongestMatch(a, b, alo, ahi, blo, bhi))

\* the block m, and the blocks to its left and to its right
MatchesAround(a, b, alo, ahi, blo, bhi, m) ==
    IF m[3] = 0 THEN 0
    ELSE m[3] + Matches(a, b, alo, m[1] - 1, blo, m[2] - 1)
              + Matches(a, b, m[1] + m[3], ahi, m[2] + m[3], bhi)

\* SequenceMatcher(None, a, b).ratio() as the fraction <<num, den>>:
\* 2.0 * matches / (len(a) + len(b)), and 1.0 when both are empty
Ratio(a, b) ==
    IF Len(a) + Len(b) = 0 THEN <<1, 1>>
    ELSE <<2 * Matches(a, b, 1, Len(a), 1, Len(b)), Len(a) + Len(b)>>

\* comparisons of fractions with positive denominators
FracGt(x, y) == x[1] * y[2] > y[1] * x[2]
\* the float literal 0.7 (ratio > 0.7 in floats is 10 * num > 7 * den for
\* every ratio whose denominator is below 400)
THRESHOLD_07 == <<7, 10>>

\* int((best_ratio - 0.7) * 100): the float result equals the exact floor
\* for every ratio above 0.7 whose denominator is below 400
ScaleRisk(r) == (100 * r[1] - 70 * r[2]) \div r[2]

ZeroRatio == <<0, 1>>

---------------------------------------------------------------------------
(* EnhancedPhishingDetector: the five checks *)

BASIC_SUSPICIOUS_CHARS == <<<<"@">>, <<"%","0","0">>, <<".","e","x","e">>, <<"=","=">>, <<"0","x">>>>
SUSPICIOUS_PARAM_NAMES == <<<<"r","e","d","i","r","e","c","t">>, <<"u","r","l">>, <<"g","o","t","o">>, <<"n","e","x","t">>, <<"r","e","t","u","r","n">>>>

\* the elements of list that occur in s, in list order
FoundIn(list, s) ==
    LET Occurs(x) == Contains(s, x) IN SelectSeq(list, Occurs)

\* a variant that counts the suspicious characters once, however many
basic_findings_flat(chars, shortener, tld, excessive) ==
    [suspicious_chars |-> chars,
     url_shortener |-> shortener,
     suspicious_tld |-> tld,
     excessive_subdomains |-> excessive,
     risk_points |-> (IF chars # <<>> THEN 10 ELSE 0)
                     + (IF shortener THEN 20 ELSE 0)
                     + (IF tld THEN 15 ELSE 0)
                     + (IF excessive THEN 15 ELSE 0)]

\* the finding, from what the four scans of check_basic_patterns saw
basic_findings(chars, shortener, tld, excessive) ==
    [suspicious_chars |-> chars,
     url_shortener |-> shortener,
     suspicious_tld |-> tld,
     excessive_subdomains |-> excessive,
     risk_points |-> 10 * Len(chars)
                     + (IF shortener THEN 20 ELSE 0)
                     + (IF tld THEN 15 ELSE 0)
                     + (IF excessive THEN 15 ELSE 0)]

basic_scan(url, url_lower) ==
    basic_findings(
        FoundIn(BASIC_SUSPICIOUS_CHARS, url_lower),
        \E i \in 1..Len(url_shorteners) : Contains(url_lower, url_shorteners[i]),
        \E i \in 1..Len(suspicious_tlds) :
            \/ EndsWith(url_lower, suspicious_tlds[i])
            \/ Contains(url_lower, suspicious_tlds[i]),
        Count(url, ".") > 3)

check_basic_patterns(url) == basic_scan(url, Lower(url))

\* a variant that gives an IP address 20 points
domain_findings_mild(domain, is_ip, has_numbers, has_hyphens) ==
    [is_ip |-> is_ip,
     domain_length |-> Len(domain),
     has_numbers |-> has_numbers,
     has_hyphens |-> has_hyphens,
     risk_points |-> (IF is_ip THEN 20 ELSE 0)
                     + (IF has_numbers THEN 5 ELSE 0)
                     + (IF has_hyphens THEN 5 ELSE 0)
                     + (IF Len(domain) > 50 THEN 10
                        ELSE IF Len(domain) < 4 THEN 15 ELSE 0)]

\* the finding, from what analyze_domain saw in the host
domain_findings(domain, is_ip, has_numbers, has_hyphens) ==
    [is_ip |-> is_ip,
     domain_length |-> Len(domain),
     has_numbers |-> has_numbers,
     has_hyphens |-> has_hyphens,
     risk_points |-> (IF is_ip THEN 25 ELSE 0)
                     + (IF has_numbers THEN 5 ELSE 0)
                     + (IF has_hyphens THEN 5 ELSE 0)
                     + (IF Len(domain) > 50 THEN 10
                        ELSE IF Len(domain) < 4 THEN 15 ELSE 0)]

domain_scan(domain) ==
    domain_findings(domain, MatchesIpPattern(domain), HasDigit(domain),
                    Contains(domain, <<"-">>))

\* a variant without the except branch
analyze_parsed_domain_unguarded(parsed) == domain_scan(Lower(parsed.netloc))

\* analyze_domain after parsed = urlparse(url)
analyze_parsed_domain(parsed) ==
    IF ~parsed.ok
    THEN [is_ip |-> FALSE, domain_length |-> 0, has_numbers |-> FALSE,
          has_hyphens |-> FALSE, risk_points |-> 20]
    ELSE domain_scan(Lower(parsed.netloc))

analyze_domain(url) == analyze_parsed_domain(UrlParse(url))

\* one iteration of the loop over self.legitimate_domains: best is
\* <<index of best_match, best_ratio>>, index 0 for best_match = None
BetterMatch(best, n, ratio) ==
    IF FracGt(ratio, best[2]) /\ FracGt(ratio, THRESHOLD_07)
    THEN <<n, ratio>> ELSE best

\* the loop over the first n entries
RECURSIVE BestMatch(_, _)
BestMatch(clean_domain, n) ==
    IF n = 0 THEN <<0, ZeroRatio>>
    ELSE BetterMatch(BestMatch(clean_domain, n - 1), n,
                     Ratio(clean_domain, StripTld(legitimate_domains[n])))

NoTyposquatting ==
    [potential_target |-> PyNone,
     similarity_score |-> ZeroRatio, is_typosquatting |-> FALSE, risk_points |-> 0]

\* a variant that does not compare the label with the best match
typosquatting_findings_any(clean_domain, best) ==
    IF best[1] /= 0 /\ FracGt(best[2], THRESHOLD_07)
    THEN [potential_target |-> PyStr(legitimate_domains[best[1]]),
          similarity_score |-> best[2],
          is_typosquatting |-> TRUE,
          risk_points |-> ScaleRisk(best[2])]
    ELSE NoTyposquatting

\* the decision after the loop
typosquatting_findings(clean_domain, best) ==
    IF /\ best[1] /= 0
       /\ FracGt(best[2], THRESHOLD_07)
       /\ clean_domain /= FirstLabel(legitimate_domains[best[1]])
    THEN [potential_target |-> PyStr(legitimate_domains[best[1]]),
          similarity_score |-> best[2],
          is_typosquatting |-> TRUE,
          risk_points |-> ScaleRisk(best[2])]
    ELSE NoTyposquatting

typosquatting_scan(clean_domain) ==
    typosquatting_findings(clean_domain,
                           BestMatch(clean_domain, Len(legitimate_domains)))

\* clean_domain, from parsed.netloc
CleanDomain(netloc) == StripTld(StripPrefix(Remove(Lower(netloc), <<"w","w","w",".">>)))

\* check_typosquatting after parsed = urlparse(url)
check_parsed_typosquatting(parsed) ==
    IF ~parsed.ok THEN NoTyposquatting
    ELSE typosquatting_scan(CleanDomain(parsed.netloc))

check_typosquatting(url) == check_parsed_typosquatting(UrlParse(url))

\* a variant that takes points off for https
check_parsed_ssl_rewarding(parsed) ==
    IF ~parsed.ok
    THEN [has_ssl |-> FALSE, ssl_valid |-> FALSE,
          ssl_error |-> PyStr(INVALID_IPV6_URL), risk_points |-> 5]
    ELSE IF parsed.scheme = <<"h","t","t","p","s">>
    THEN [has_ssl |-> TRUE, ssl_valid |-> TRUE,
          ssl_error |-> PyNone, risk_points |-> 0 - 10]
    ELSE [has_ssl |-> FALSE, ssl_valid |-> FALSE,
          ssl_error |-> PyNone, risk_points |-> 10]

\* a variant whose except branch adds no points
check_parsed_ssl_silent(parsed) ==
    IF ~parsed.ok
    THEN [has_ssl |-> FALSE, ssl_valid |-> FALSE,
          ssl_error |-> PyStr(INVALID_IPV6_URL), risk_points |-> 0]
    ELSE IF parsed.scheme = <<"h","t","t","p","s">>
    THEN [has_ssl |-> TRUE, ssl_valid |-> TRUE,
          ssl_error |-> PyNone, risk_points |-> 0]
    ELSE [has_ssl |-> FALSE, ssl_valid |-> FALSE,
          ssl_error |-> PyNone, risk_points |-> 10]

\* a variant that takes http for secure as well
check_parsed_ssl_lenient(parsed) ==
    IF ~parsed.ok
    THEN [has_ssl |-> FALSE, ssl_valid |-> FALSE,
          ssl_error |-> PyStr(INVALID_IPV6_URL), risk_points |-> 5]
    ELSE IF parsed.scheme \in {<<"h","t","t","p","s">>, <<"h","t","t","p">>}
    THEN [has_ssl |-> TRUE, ssl_valid |-> TRUE,
          ssl_error |-> PyNone, risk_points |-> 0]
    ELSE [has_ssl |-> FALSE, ssl_valid |-> FALSE,
          ssl_error |-> PyNone, risk_points |-> 10]

\* check_ssl after parsed = urlparse(url)
check_parsed_ssl(parsed) ==
    IF ~parsed.ok
    THEN [has_ssl |-> FALSE, ssl_valid |-> FALSE,
          ssl_error |-> PyStr(INVALID_IPV6_URL), risk_points |-> 5]
    ELSE IF parsed.scheme = <<"h","t","t","p","s">>
    THEN [has_ssl |-> TRUE, ssl_valid |-> TRUE,
          ssl_error |-> PyNone, risk_points |-> 0]
    ELSE [has_ssl |-> FALSE, ssl_valid |-> FALSE,
          ssl_error |-> PyNone, risk_points |-> 10]

check_ssl(url) == check_parsed_ssl(UrlParse(url))

\* a variant that counts the suspicious parameters once, however many
structure_findings_flat(path_depth, has_query, params, encoded) ==
    [path_depth |-> path_depth,
     has_query_params |-> has_query,
     suspicious_params |-> params,
     encoded_chars |-> encoded,
     risk_points |-> (IF path_depth > 5 THEN 5 ELSE 0)
                     + (IF params # <<>> THEN 10 ELSE 0)
                     + (IF encoded THEN 5 ELSE 0)]

\* the finding, from what analyze_url_structure saw
structure_findings(path_depth, has_query, params, encoded) ==
    [path_depth |-> path_depth,
     has_query_params |-> has_query,
     suspicious_params |-> params,
     encoded_chars |-> encoded,
     risk_points |-> (IF path_depth > 5 THEN 5 ELSE 0)
                     + 10 * Len(params)
                     + (IF encoded THEN 5 ELSE 0)]

\* analyze_url_structure after parsed = urlparse(url)
analyze_parsed_structure(url, parsed) ==
    IF ~parsed.ok
    THEN [path_depth |-> 0, has_query_params |-> FALSE,
          suspicious_params |-> <<>>, encoded_chars |-> FALSE,
          risk_points |-> 5]
    ELSE structure_findings(
             NonEmptyParts(parsed.path, "/"),
             parsed.query /= <<>>,
             IF parsed.query /= <<>>
             THEN FoundIn(SUSPICIOUS_PARAM_NAMES, Lower(parsed.query))
             ELSE <<>>,
             Contains(url, <<"%">>))

analyze_url_structure(url) == analyze_parsed_structure(url, UrlParse(url))

---------------------------------------------------------------------------
(* EnhancedPhishingDetector: aggregation, recommendations, analyze_url *)

\* for _, check_results in checks.items(): total_risk += risk_points
RECURSIVE SumRiskPoints(_, _)
SumRiskPoints(checks, names) ==
    IF names = {} THEN 0
    ELSE LET n == CHOOSE x \in names : TRUE
         IN  checks[n].risk_points + SumRiskPoints(checks, names \ {n})

\* a variant that returns the sum itself
calculate_risk_score_uncapped(checks) == SumRiskPoints(checks, DOMAIN checks)

calculate_risk_score(checks) == Min(SumRiskPoints(checks, DOMAIN checks), 100)

\* a variant whose bands start one above each threshold
get_risk_level_strict(risk_score) ==
    IF risk_score > 70 THEN "CRITICAL"
    ELSE IF risk_score > 50 THEN "HIGH"
    ELSE IF risk_score > 30 THEN "MEDIUM"
    ELSE IF risk_score > 10 THEN "LOW"
    ELSE "MINIMAL"

get_risk_level(risk_score) ==
    IF risk_score >= 70 THEN "CRITICAL"
    ELSE IF risk_score >= 50 THEN "HIGH"
    ELSE IF risk_score >= 30 THEN "MEDIUM"
    ELSE IF risk_score >= 10 THEN "LOW"
    ELSE "MINIMAL"

\* a variant that tests the thresholds from the lowest up
get_recommendations_ascending(analysis) ==
    LET risk_score == analysis.risk_score IN
    IF risk_score < 10
    THEN <<<<"U","R","L"," ","a","p","p","e","a","r","s"," ","r","e","l","a","t","i","v","e","l","y"," ","s","a","f","e">>,
           <<"A","l","w","a","y","s"," ","v","e","r","i","f","y"," ","H","T","T","P","S"," ","a","n","d"," ","c","e","r","t","i","f","i","c","a","t","e","s">>,
           <<"R","e","m","a","i","n"," ","v","i","g","i","l","a","n","t"," ","f","o","r"," ","a","n","y"," ","s","u","s","p","i","c","i","o","u","s"," ","b","e","h","a","v","i","o","r">>>>
    ELSE IF risk_score >= 10
    THEN <<<<"B","e"," ","c","a","u","t","i","o","u","s"," ","a","n","d"," ","v","e","r","i","f","y"," ","t","h","e"," ","s","o","u","r","c","e">>,
           <<"E","n","s","u","r","e"," ","H","T","T","P","S"," ","i","s"," ","u","s","e","d"," ","a","n","d"," ","c","e","r","t","i","f","i","c","a","t","e"," ","i","s"," ","v","a","l","i","d">>,
           <<"D","o","u","b","l","e","-","c","h","e","c","k"," ","t","h","e"," ","d","o","m","a","i","n"," ","s","p","e","l","l","i","n","g">>>>
    ELSE IF risk_score >= 30
    THEN <<<<"E","x","e","r","c","i","s","e"," ","e","x","t","r","e","m","e"," ","c","a","u","t","i","o","n"," ","w","i","t","h"," ","t","h","i","s"," ","U","R","L">>,
           <<"V","e","r","i","f","y"," ","t","h","e"," ","U","R","L"," ","t","h","r","o","u","g","h"," ","o","f","f","i","c","i","a","l"," ","c","h","a","n","n","e","l","s">>,
           <<"U","s","e"," ","a","d","d","i","t","i","o","n","a","l"," ","s","e","c","u","r","i","t","y"," ","t","o","o","l","s"," ","b","e","f","o","r","e"," ","v","i","s","i","t","i","n","g">>>>
    ELSE <<<<"D","O"," ","N","O","T"," ","v","i","s","i","t"," ","t","h","i","s"," ","U","R","L"," ","o","r"," ","e","n","t","e","r"," ","a","n","y"," ","p","e","r","s","o","n","a","l"," ","i","n","f","o","r","m","a","t","i","o","n">>,
           <<"T","h","i","s"," ","U","R","L"," ","s","h","o","w","s"," ","m","u","l","t","i","p","l","e"," ","h","i","g","h","-","r","i","s","k"," ","i","n","d","i","c","a","t","o","r","s">>,
           <<"R","e","p","o","r","t"," ","t","h","i","s"," ","U","R","L"," ","t","o"," ","y","o","u","r"," ","I","T"," ","s","e","c","u","r","i","t","y"," ","t","e","a","m"," ","i","f"," ","r","e","c","e","i","v","e","d"," ","v","i","a"," ","e","m","a","i","l">>>>

\* the message texts, without the pictograph that starts each of them
get_recommendations(analysis) ==
    LET risk_score == analysis.risk_score IN
    IF risk_score >= 50
    THEN <<<<"D","O"," ","N","O","T"," ","v","i","s","i","t"," ","t","h","i","s"," ","U","R","L"," ","o","r"," ","e","n","t","e","r"," ","a","n","y"," ","p","e","r","s","o","n","a","l"," ","i","n","f","o","r","m","a","t","i","o","n">>,
           <<"T","h","i","s"," ","U","R","L"," ","s","h","o","w","s"," ","m","u","l","t","i","p","l","e"," ","h","i","g","h","-","r","i","s","k"," ","i","n","d","i","c","a","t","o","r","s">>,
           <<"R","e","p","o","r","t"," ","t","h","i","s"," ","U","R","L"," ","t","o"," ","y","o","u","r"," ","I","T"," ","s","e","c","u","r","i","t","y"," ","t","e","a","m"," ","i","f"," ","r","e","c","e","i","v","e","d"," ","v","i","a"," ","e","m","a","i","l">>>>
    ELSE IF risk_score >= 30
    THEN <<<<"E","x","e","r","c","i","s","e"," ","e","x","t","r","e","m","e"," ","c","a","u","t","i","o","n"," ","w","i","t","h"," ","t","h","i","s"," ","U","R","L">>,
           <<"V","e","r","i","f","y"," ","t","h","e"," ","U","R","L"," ","t","h","r","o","u","g","h"," ","o","f","f","i","c","i","a","l"," ","c","h","a","n","n","e","l","s">>,
           <<"U","s","e"," ","a","d","d","i","t","i","o","n","a","l"," ","s","e","c","u","r","i","t","y"," ","t","o","o","l","s"," ","b","e","f","o","r","e"," ","v","i","s","i","t","i","n","g">>>>
    ELSE IF risk_score >= 10
    THEN <<<<"B","e"," ","c","a","u","t","i","o","u","s"," ","a","n","d"," ","v","e","r","i","f","y"," ","t","h","e"," ","s","o","u","r","c","e">>,
           <<"E","n","s","u","r","e"," ","H","T","T","P","S"," ","i","s"," ","u","s","e","d"," ","a","n","d"," ","c","e","r","t","i","f","i","c","a","t","e"," ","i","s"," ","v","a","l","i","d">>,
           <<"D","o","u","b","l","e","-","c","h","e","c","k"," ","t","h","e"," ","d","o","m","a","i","n"," ","s","p","e","l","l","i","n","g">>>>
    ELSE <<<<"U","R","L"," ","a","p","p","e","a","r","s"," ","r","e","l","a","t","i","v","e","l","y"," ","s","a","f","e">>,
           <<"A","l","w","a","y","s"," ","v","e","r","i","f","y"," ","H","T","T","P","S"," ","a","n","d"," ","c","e","r","t","i","f","i","c","a","t","e","s">>,
           <<"R","e","m","a","i","n"," ","v","i","g","i","l","a","n","t"," ","f","o","r"," ","a","n","y"," ","s","u","s","p","i","c","i","o","u","s"," ","b","e","h","a","v","i","o","r">>>>

\* a variant with a strict comparison
is_suspicious_above(risk_score) == risk_score > 30

is_suspicious_score(risk_score) == risk_score >= 30

\* the exception that escapes analyze_url(v): _check_basic_patterns calls
\* url.lower() outside any try block
analyze_url_exc(v) == IF IsStr(v) THEN "none" ELSE "AttributeError"

\* str(e) of that exception
ATTRIBUTE_ERROR_TEXT == <<"'","N","o","n","e","T","y","p","e","'"," ","o","b","j","e","c","t"," ","h","a","s"," ","n","o"," ","a","t","t","r","i","b","u","t","e"," ","'","l","o","w","e","r","'">>

\* the five checks of analyze_url, for the str url
run_checks(url) ==
    [basic_patterns  |-> check_basic_patterns(url),
     domain_analysis |-> analyze_domain(url),
     typosquatting   |-> check_typosquatting(url),
     ssl_check       |-> check_ssl(url),
     url_structure   |-> analyze_url_structure(url)]

\* the names of the checks, the keys of analysis['checks']
CHECK_NAMES == {"basic_patterns", "domain_analysis", "typosquatting",
                "ssl_check", "url_structure"}

\* a variant in which _check_ssl looks at the finding of _analyze_domain
check_finding_chained(name, url) ==
    CASE name = "basic_patterns"  -> check_basic_patterns(url)
      [] name = "domain_analysis" -> analyze_domain(url)
      [] name = "typosquatting"   -> check_typosquatting(url)
      [] name = "ssl_check"       ->
            IF "domain_analysis" \in DOMAIN findings /\ findings.domain_analysis.is_ip
            THEN [check_ssl(url) EXCEPT !.risk_points = @ + 15]
            ELSE check_ssl(url)
      [] name = "url_structure"   -> analyze_url_structure(url)

\* one entry of analysis['checks']: the call of the check of that name
check_finding(name, url) ==
    CASE name = "basic_patterns"  -> check_basic_patterns(url)
      [] name = "domain_analysis" -> analyze_domain(url)
      [] name = "typosquatting"   -> check_typosquatting(url)
      [] name = "ssl_check"       -> check_ssl(url)
      [] name = "url_structure"   -> analyze_url_structure(url)

\* the analysis dict once risk_score, risk_level and is_suspicious are set
scored_analysis(v, now, checks, risk_score) ==
    [url |-> v,
     timestamp |-> now,
     risk_score |-> risk_score,
     risk_level |-> get_risk_level(risk_score),
     is_suspicious |-> is_suspicious_score(risk_score),
     checks |-> checks,
     recommendations |-> <<>>]

with_recommendations(analysis) ==
    [analysis EXCEPT !.recommendations = get_recommendations(analysis)]

score_checks(v, now, checks) ==
    with_recommendations(scored_analysis(v, now, checks, calculate_risk_score(checks)))

\* analyze_url for a str argument; now is datetime.now()
analyze_url(v, now) == score_checks(v, now, run_checks(v.s))

\* "except Exception" of batch_analyze: the exception classes it catches,
\* among those a call can raise
EXCEPTION_SUBCLASSES == {"AttributeError", "TypeError", "ValueError"}
\* a variant that catches ValueError only
batch_catches_value_error(e) == e = "ValueError"

batch_catches(e) == e \in EXCEPTION_SUBCLASSES

\* the entry batch_analyze makes for url: the analysis, or the error record
batch_entry(v, now) ==
    IF analyze_url_exc(v) = "none" THEN analyze_url(v, now)
    ELSE [url |-> v, error |-> ATTRIBUTE_ERROR_TEXT, risk_level |-> "ERROR"]

\* a variant that drops the element whose analysis raised
batch_append_skipping(res, v, now) ==
    IF analyze_url_exc(v) = "none" THEN Append(res, batch_entry(v, now)) ELSE res

\* results.append(...) in either branch of the try statement
batch_append(res, v, now) == Append(res, batch_entry(v, now))

\* a variant that knows the https scheme only
normalize_url_https_only(url) ==
    IF StartsWith(url, <<"h","t","t","p","s",":","/","/">>) THEN url ELSE <<"h","t","t","p","s",":","/","/">> \o url

\* a variant that puts the scheme in front without looking
normalize_url_always(url) == <<"h","t","t","p","s",":","/","/">> \o url

\* "Add protocol if missing", in main() and in extract_urls_from_text
normalize_url(url) ==
    IF StartsWith(url, <<"h","t","t","p",":","/","/">>) \/ StartsWith(url, <<"h","t","t","p","s",":","/","/">>) THEN url
    ELSE <<"h","t","t","p","s",":","/","/">> \o url

---------------------------------------------------------------------------
(* phishing_detector.py: the simple check *)

SIMPLE_SHORTENERS == <<<<"t","i","n","y","u","r","l",".","c","o","m">>, <<"b","i","t",".","l","y">>, <<"g","o","o",".","g","l">>, <<"t",".","c","o">>, <<"o","w",".","l","y">>,
                       <<"t","i","n","y",".","c","c">>, <<"i","s",".","g","d">>, <<"b","u","f","f",".","l","y">>>>
SIMPLE_SUSPICIOUS_CHARS == <<<<"@">>, <<"=","=">>, <<"0","x">>, <<"%","0","0">>, <<".","e","x","e">>>>

\* re.search(r'[0-9]+[a-z]+[0-9]+', s)
HasDigitsLettersDigits(s) ==
    \E i, j \in 1..Len(s) :
        /\ i + 2 <= j /\ s[i] \in DIGITS /\ s[j] \in DIGITS
        /\ \A k \in (i + 1)..(j - 1) : s[k] \in LOWERS

\* re.search(r'[a-z]+-[a-z]+-[a-z]+', s)
HasMultipleHyphens(s) ==
    \E i, j \in 2..(Len(s) - 1) :
        /\ i + 2 <= j /\ s[i] = "-" /\ s[j] = "-"
        /\ s[i - 1] \in LOWERS /\ s[j + 1] \in LOWERS
        /\ \A k \in (i + 1)..(j - 1) : s[k] \in LOWERS

\* re.search(r'[a-z]+\d+[a-z]+', s)
HasLettersDigitsLetters(s) ==
    \E i, j \in 2..(Len(s) - 1) :
        /\ i <= j /\ s[i - 1] \in LOWERS /\ s[j + 1] \in LOWERS
        /\ \A k \in i..j : s[k] \in DIGITS

suspicious_domain(domain) ==
    \/ MatchesIpPattern(domain)
    \/ HasDigitsLettersDigits(domain)
    \/ HasMultipleHyphens(domain)
    \/ HasLettersDigitsLetters(domain)
    \/ Len(domain) > 50

\* check_suspicious_patterns after parsed_url = urlparse(url)
check_parsed_patterns(parsed) ==
    IF ~parsed.ok THEN TRUE ELSE suspicious_domain(Lower(parsed.netloc))

check_suspicious_patterns(url) == check_parsed_patterns(UrlParse(url))

\* domain == shortener or domain.endswith('.' + shortener), for any shortener
IsShortenerHost(domain, shorteners) ==
    \E i \in 1..Len(shorteners) :
        domain = shorteners[i] \/ EndsWith(domain, <<".">> \o shorteners[i])

\* domain[4:] if domain.startswith('www.')
WithoutWww(domain) == IF StartsWith(domain, <<"w","w","w",".">>) THEN From(domain, 5) ELSE domain

\* is_phishing_url past the blank test, with parsed = urlparse(url)
phishing_indicators(url, url_lower, parsed) ==
    \/ Count(url, ".") > 3
    \/ parsed.ok /\ Count(WithoutWww(Lower(parsed.netloc)), ".") + 1 >= 4
    \/ IF parsed.ok THEN IsShortenerHost(Lower(parsed.netloc), SIMPLE_SHORTENERS)
       ELSE \E i \in 1..Len(SIMPLE_SHORTENERS) :
               Contains(url_lower, SIMPLE_SHORTENERS[i])
    \/ \E i \in 1..Len(SIMPLE_SUSPICIOUS_CHARS) :
          Contains(url_lower, SIMPLE_SUSPICIOUS_CHARS[i])
    \/ check_parsed_patterns(parsed)

\* a variant without the test for absent and blank input
is_phishing_url_unguarded(v) == phishing_indicators(v.s, Lower(v.s), UrlParse(v.s))

is_phishing_url(v) ==
    IF ~IsStr(v) \/ v.s = <<>> \/ Strip(v.s) = <<>> THEN TRUE
    ELSE phishing_indicators(v.s, Lower(v.s), UrlParse(v.s))


\* re.search(ip_pattern, netloc): the dotted quad anywhere, after the start
\* or a non-word character
SearchesIpPattern(netloc) ==
    \E i \in 1..Len(netloc) :
        /\ i = 1 \/ netloc[i - 1] \notin WORD_CHARS
        /\ MatchesIpPattern(From(netloc, i))

\* a variant that takes any URL with more than one '.' for suspicious
details_risk_factors_eager(url, netloc) ==
    IF Count(url, ".") > 1
    THEN << <<<<"E","x","c","e","s","s","i","v","e"," ","s","u","b","d","o","m","a","i","n","s">>, Count(url, ".")>> >> ELSE <<>>

\* analysis['risk_factors'] of analyze_url_details for a URL that parsed,
\* each entry the fixed text of the message and what is formatted into it
details_risk_factors(url, netloc) ==
    SelectSeq([i \in 1..Len(SIMPLE_SHORTENERS) |->
                  <<<<"U","s","e","s"," ","U","R","L"," ","s","h","o","r","t","e","n","e","r",":"," ">>, SIMPLE_SHORTENERS[i]>>],
              LAMBDA f : IsShortenerHost(Lower(netloc), <<f[2]>>))
    \o SelectSeq([i \in 1..Len(SIMPLE_SUSPICIOUS_CHARS) |->
                  <<<<"C","o","n","t","a","i","n","s"," ","s","u","s","p","i","c","i","o","u","s"," ","c","h","a","r","a","c","t","e","r","/","p","a","t","t","e","r","n",":"," ">>, SIMPLE_SUSPICIOUS_CHARS[i]>>],
              LAMBDA f : Contains(url, f[2]))
    \o (IF Count(url, ".") > 3
        THEN << <<<<"E","x","c","e","s","s","i","v","e"," ","s","u","b","d","o","m","a","i","n","s">>, Count(url, ".")>> >>
        ELSE IF Count(Remove(Lower(netloc), <<"w","w","w",".">>), ".") + 1 >= 4
        THEN << <<<<"S","u","s","p","i","c","i","o","u","s"," ","d","o","m","a","i","n"," ","s","t","r","u","c","t","u","r","e">>,
                  Count(Remove(Lower(netloc), <<"w","w","w",".">>), ".") + 1>> >>
        ELSE <<>>)
    \o (IF SearchesIpPattern(netloc)
        THEN << <<<<"U","s","e","s"," ","I","P"," ","a","d","d","r","e","s","s"," ","i","n","s","t","e","a","d"," ","o","f"," ","d","o","m","a","i","n"," ","n","a","m","e">>, <<>>>> >> ELSE <<>>)
    \o (IF Len(netloc) > 50
        THEN << <<<<"U","n","u","s","u","a","l","l","y"," ","l","o","n","g"," ","d","o","m","a","i","n"," ","n","a","m","e">>, <<>>>> >> ELSE <<>>)

\* a variant that needs two risk factors to call a URL suspicious
details_of_parsed_lenient(v, parsed, factors) ==
    [url |-> v,
     is_suspicious |-> Len(factors) > 1,
     risk_factors |-> factors,
     domain_info |-> [scheme |-> parsed.scheme, domain |-> parsed.netloc,
                      path |-> parsed.path, query |-> parsed.query],
     recommendations |-> <<>>]

\* the analysis of a URL that parsed, from its risk factors
details_of_parsed(v, parsed, factors) ==
    [url |-> v,
     is_suspicious |-> Len(factors) > 0,
     risk_factors |-> factors,
     domain_info |-> [scheme |-> parsed.scheme, domain |-> parsed.netloc,
                      path |-> parsed.path, query |-> parsed.query],
     recommendations |->
         IF Len(factors) > 0
         THEN <<<<"D","o"," ","n","o","t"," ","e","n","t","e","r"," ","p","e","r","s","o","n","a","l"," ","i","n","f","o","r","m","a","t","i","o","n"," ","o","n"," ","t","h","i","s"," ","s","i","t","e">>,
                <<"V","e","r","i","f","y"," ","t","h","e"," ","U","R","L"," ","w","i","t","h"," ","t","h","e"," ","o","f","f","i","c","i","a","l"," ","w","e","b","s","i","t","e">>,
                <<"C","h","e","c","k"," ","f","o","r"," ","H","T","T","P","S"," ","a","n","d"," ","v","a","l","i","d"," ","c","e","r","t","i","f","i","c","a","t","e","s">>,
                <<"U","s","e"," ","a","n","t","i","v","i","r","u","s"," ","s","o","f","t","w","a","r","e"," ","t","o"," ","s","c","a","n"," ","t","h","e"," ","l","i","n","k">>>>
         ELSE <<<<"U","R","L"," ","a","p","p","e","a","r","s"," ","s","a","f","e"," ","b","a","s","e","d"," ","o","n"," ","b","a","s","i","c"," ","c","h","e","c","k","s">>,
                <<"A","l","w","a","y","s"," ","v","e","r","i","f","y"," ","H","T","T","P","S"," ","a","n","d"," ","c","e","r","t","i","f","i","c","a","t","e","s">>,
                <<"B","e"," ","c","a","u","t","i","o","u","s"," ","w","i","t","h"," ","p","e","r","s","o","n","a","l"," ","i","n","f","o","r","m","a","t","i","o","n">>>>]

\* the analysis the except branch leaves: for a str, urlparse raised and
\* domain_info is still {}; for None, urlparse returned empty bytes and
\* bytes.endswith raised on the str argument
details_of_failure(v, message, domain_info) ==
    [url |-> v,
     is_suspicious |-> TRUE,
     risk_factors |-> << <<<<"U","R","L"," ","p","a","r","s","i","n","g"," ","e","r","r","o","r",":"," ">>, message>> >>,
     domain_info |-> domain_info,
     recommendations |-> <<>>]

analyze_url_details(v) ==
    IF ~IsStr(v)
    THEN details_of_failure(v,
             <<"e","n","d","s","w","i","t","h"," ","f","i","r","s","t"," ","a","r","g"," ","m","u","s","t"," ","b","e"," ","b","y","t","e","s"," ","o","r"," ","a"," ","t","u","p","l","e"," ","o","f"," ","b","y","t","e","s",","," ","n","o","t"," ","s","t","r">>,
             [scheme |-> "b''", domain |-> "b''", path |-> "b''", query |-> "b''"])
    ELSE IF ~UrlParse(v.s).ok
    THEN details_of_failure(v, INVALID_IPV6_URL, <<>>)
    ELSE details_of_parsed(v, UrlParse(v.s),
                           details_risk_factors(v.s, UrlParse(v.s).netloc))
---------------------------------------------------------------------------
(* gmail_url_extractor.py: extract_urls_from_text *)

ALNUM == LOWERS \cup UPPERS \cup DIGITS

\* the characters the first alternative of url_pattern repeats after
\* 'http[s]?://': letters, digits, the range $-_ and ! * \ ( ) ,
URL_PATTERN_CHARS ==
    ALNUM \cup {"$", "%", "&", "'", "(", ")", "*", "+", ",", "-", ".", "/",
                ":", ";", "<", "=", ">", "?", "@", "[", "\\", "]", "^", "_", "!"}

\* the longest label the second alternative can take: 1 + 61 + 1 characters
MAX_LABEL == 63

\* the last position of the run of characters of class that starts at k
\* (k - 1 when s[k] is not in class)
RunEnd(s, k, class) ==
    LET stops == {j \in k..Len(s) : s[j] \notin class}
    IN  IF stops = {} THEN Len(s) ELSE SetMin(stops) - 1

\* s[i..i+Len(p)-1] = p
HasAt(s, i, p) == i + Len(p) - 1 <= Len(s) /\ SubSeq(s, i, i + Len(p) - 1) = p

\* 'http[s]?://' matched up to position k - 1: one or more pattern
\* characters must follow; the end of the match, 0 for no match
SchemeRunEnd(s, k) ==
    IF k <= Len(s) /\ s[k] \in URL_PATTERN_CHARS
    THEN RunEnd(s, k, URL_PATTERN_CHARS) ELSE 0

\* the first alternative at position i
HttpMatchEnd(s, i) ==
    IF HasAt(s, i, <<"h","t","t","p","s",":","/","/">>) THEN SchemeRunEnd(s, i + 8)
    ELSE IF HasAt(s, i, <<"h","t","t","p",":","/","/">>) THEN SchemeRunEnd(s, i + 7)
    ELSE 0

\* [a-zA-Z0-9](?:[a-zA-Z0-9-]{0,61}[a-zA-Z0-9])? at j, taken greedily: the
\* last alphanumeric position within the run of letters, digits and hyphens,
\* 0 when s[j] is not alphanumeric
LabelEndIn(s, j, r) == SetMax({e \in j..r : s[e] \in ALNUM})
LabelEnd(s, j) ==
    IF j > Len(s) \/ s[j] \notin ALNUM THEN 0
    ELSE LabelEndIn(s, j, Min(RunEnd(s, j, ALNUM \cup {"-"}), j + MAX_LABEL - 1))

\* \.[a-zA-Z]{2,} after position e: the end of the letters, 0 for no match
TldRunEnd(s, e, r) == IF r >= e + 3 THEN r ELSE 0
TldEnd(s, e) ==
    IF e + 1 <= Len(s) /\ s[e + 1] = "."
    THEN TldRunEnd(s, e, RunEnd(s, e + 2, LOWERS \cup UPPERS)) ELSE 0

\* (?:\.label)*\.[a-zA-Z]{2,} after a label that ends at e: as many labels
\* as still leave a match for the last part
RECURSIVE DomainChainEnd(_, _)
RECURSIVE DomainChainOver(_, _, _)
DomainChainEnd(s, e) ==
    IF e + 1 <= Len(s) /\ s[e + 1] = "."
    THEN DomainChainOver(s, e, LabelEnd(s, e + 2))
    ELSE 0

\* next: the end of the label after the dot, 0 when there is none
DomainChainTry(s, e, further) == IF further /= 0 THEN further ELSE TldEnd(s, e)
DomainChainOver(s, e, next) ==
    IF next = 0 THEN TldEnd(s, e)
    ELSE DomainChainTry(s, e, DomainChainEnd(s, next))

\* label(?:\.label)*\.[a-zA-Z]{2,} at j
DomainFromLabel(s, first) == IF first = 0 THEN 0 ELSE DomainChainEnd(s, first)
DomainEnd(s, j) == DomainFromLabel(s, LabelEnd(s, j))

\* the second alternative at position i: with the optional 'www.' first
WwwDomainTry(s, i, with_www) == IF with_www /= 0 THEN with_www ELSE DomainEnd(s, i)
DomainMatchEnd(s, i) ==
    IF HasAt(s, i, <<"w","w","w",".">>) THEN WwwDomainTry(s, i, DomainEnd(s, i + 4))
    ELSE DomainEnd(s, i)

\* url_pattern at position i: the end of the match, 0 for no match
PatternTry(s, i, first) == IF first /= 0 THEN first ELSE DomainMatchEnd(s, i)
PatternMatchEnd(s, i) == PatternTry(s, i, HttpMatchEnd(s, i))

\* url_pattern.findall(s) from position i on
RECURSIVE FindAllFrom(_, _)
RECURSIVE FindAllAt(_, _, _)
FindAllFrom(s, i) ==
    IF i > Len(s) THEN <<>> ELSE FindAllAt(s, i, PatternMatchEnd(s, i))
FindAllAt(s, i, e) ==
    IF e = 0 THEN FindAllFrom(s, i + 1)
    ELSE <<SubSeq(s, i, e)>> \o FindAllFrom(s, e + 1)

FindAll(s) == FindAllFrom(s, 1)

\* the body of "for url in urls": what one match adds to cleaned_urls
clean_match(url) ==
    IF Strip(url) /= <<>> /\ ~EndsWith(Strip(url), <<".">>)
    THEN {normalize_url(Strip(url))} ELSE {}

\* the lists list(set) can return: the elements of S once each, in any order
ListsOf(S) ==
    {q \in [1..Cardinality(S) -> S] : \A i, j \in 1..Cardinality(S) : q[i] = q[j] => i = j}

\* set(cleaned_urls), the set extract_urls_from_text(text) returns the
\* elements of
extract_urls_from_text(text) ==
    IF ~IsStr(text) \/ text.s = <<>> THEN {}
    ELSE LET matches == FindAll(text.s)
         IN  UNION {clean_match(matches[k]) : k \in 1..Len(matches)}

\* the URLs as display_results prints them: one to a line
RECURSIVE render_lines(_)
render_lines(q) ==
    IF q = <<>> THEN <<>> ELSE Head(q) \o <<"\n">> \o render_lines(Tail(q))



----------------------------------------------------------------------------
(* gmail_url_extractor.py: analyze_gmail_urls *)

\* the URLs of one email that is_phishing_url flags, in the order extracted
suspicious_urls(found) == SelectSeq(found, LAMBDA url : is_phishing_url(PyStr(url)))

\* suspicious_emails after one email whose text gave the list found
suspicious_emails_appended(emails, subject, found, msg_id) ==
    IF suspicious_urls(found) = <<>> THEN emails
    ELSE Append(emails, [subject |-> subject, urls |-> suspicious_urls(found),
                         message_id |-> msg_id])

\* one call made to the email source, as source_log keeps it
source_call(call, msg_id, outcome, subject, body) ==
    [call |-> call, message_id |-> msg_id, outcome |-> outcome,
     subject |-> subject, body |-> body]
---------------------------------------------------------------------------
(* The inputs *)

MaxBatchLen == 2     \* the longest batch given to batch_analyze
MaxTime == 2         \* the clock readings datetime.now() can return
MaxMessages == 2     \* the most message ids get_recent_emails returns

Timestamps == 1..MaxTime

SCHEMES == {<<>>, <<"h","t","t","p",":","/","/">>, <<"h","t","t","p","s",":","/","/">>, <<"H","T","T","P","S",":","/","/">>, <<"f","t","p",":","/","/">>}
HOSTS == {<<>>, <<"g","o","o","g","l","e",".","c","o","m">>, <<"w","w","w",".","g","o","o","g","l","e",".","c","o","m">>, <<"g","o","o","o","g","l","e",".","c","o","m">>, <<"m",".","g","i","t","h","u","b",".","c","o","m">>,
          <<"b","i","t",".","l","y">>, <<"1","9","2",".","1","6","8",".","1",".","1">>, <<"t","e","s","t","-","s","i","t","e",".","c","o","m">>, <<"e","x","a","m","p","l","e","1","2","3",".","c","o","m">>, <<"x",".","y">>,
          <<"[",":",":","1">>, <<"u","s","e","r","@","e","v","i","l",".","t","k">>, <<"a",".","b",".","c",".","d",".","e","x","a","m","p","l","e",".","c","o","m">>, <<"m","i","c","r","o","s","o","f","t",".","c","o","m">>,
          <<"s","e","c","u","r","e","-","l","o","g","i","n","-","a","c","c","o","u","n","t","-","v","e","r","i","f","i","c","a","t","i","o","n","-","u","p","d","a","t","e",".","p","a","y","p","a","l","-","s","u","p","p","o","r","t",".","i","n","f","o">>}
TAILS == {<<>>, <<"/","a","/","b","/","c","/","d","/","e","/","f","/","d","e","e","p">>, <<"/","f",".","e","x","e","?","r","e","d","i","r","e","c","t","=","0","x","=","=","%","0","0","&","n","e","x","t","=",".","c","c">>,
          <<"?","u","r","l","=","a",";","r","e","t","u","r","n">>, <<"/","p","a","t","h","%","2","0","w","i","t","h","%","2","0","s","p","a","c","e","s","#","t","o","p">>}

\* strings that are empty or whitespace only
BLANKS == {<<>>, <<" ">>, <<" ", "\t", " ">>}

UrlStrings ==
    {s \o h \o t : s \in SCHEMES, h \in HOSTS, t \in TAILS} \cup BLANKS

\* hosts written with a port, one with www. inside and one with an IP
\* address inside
EXTRA_HOSTS == {<<"b","i","t",".","l","y",":","4","4","3">>, <<"T",".","C","O",":","8","0","8","0">>, <<"e","x","a","m","p","l","e",".","c","o","m",":","8","0","8","0">>,
                <<"c","u","s","t","o","m","e","r","s","e","r","v","i","c","e","p","o","r","t","a","l",".","i","n","t","e","r","n","a","t","i","o","n","a","l","b","a","n","k","-","g","r","o","u","p",".","o","r","g",":","8","4","4","3">>,
                <<"g","o","w","w","w",".","o","g","l","e",".","c","o","m">>, <<"a","-","1",".","2",".","3",".","4">>}

\* what a caller can pass as a URL: any of the strings, or None
UrlValues == {PyStr(u) : u \in UrlStrings} \cup {PyNone}

\* these and the URLs of the further hosts
ExtendedValues ==
    UrlValues \cup {PyStr(s \o h \o t) : s \in {<<"h","t","t","p","s",":","/","/">>}, h \in EXTRA_HOSTS,
                                         t \in {<<>>, <<"/","a","b","c">>}}

\* the elements batches are made of
BatchValues == {PyNone, PyStr(<<"i","n","v","a","l","i","d","-","u","r","l">>), PyStr(<<"h","t","t","p",":","/","/","[",":",":","1","/","x">>),
                PyStr(<<"h","t","t","p","s",":","/","/","b","i","t",".","l","y","/","s","u","s","p","i","c","i","o","u","s">>)}

\* the URLs whose checks are evaluated one by one
CheckOrderValues ==
    {PyStr(s \o h) : s \in {<<>>, <<"h","t","t","p","s",":","/","/">>}, h \in HOSTS}

\* texts of emails: subject and body
TEXTS == {<<>>, <<"n","o"," ","l","i","n","k","s"," ","h","e","r","e">>,
          <<"V","i","s","i","t"," ","h","t","t","p",":","/","/","e","x","a","m","p","l","e",".","c","o","m",".">>,
          <<"s","e","e"," ","w","w","w",".","g","o","o","g","l","e",".","c","o","m",","," ","o","r"," ","h","t","t","p","s",":","/","/","b","i","t",".","l","y","/","x"," ","n","o","w">>,
          <<"h","t","t","p",":","/","/","a",".","c","o","/","b"," ","h","t","t","p",":","/","/","a",".","c","o","/","b">>,
          <<"m","a","i","l"," ","b","o","b","@","t","e","s","t","-","s","i","t","e",".","o","r","g","!">>,
          <<"g","o"," ","t","o"," ","e","x","a","m","p","l","e",".","c","o","m","2"," ","o","r"," ","a",".","b">>,
          <<"(","h","t","t","p","s",":","/","/","x",".","i","o","/","a","?","b","=","1",")">>,
          <<"h","t","t","p",":","/","/"," ","w","w","w",".","p","a","y","p","a","l",".","c","o","m",".">>,
          <<"H","T","T","P",":","/","/","X",".","C","O","M","/","a"," ","a","n","d"," ","1","9","2",".","1","6","8",".","1",".","1">>}

\* what get_email_content finds in a message
SUBJECTS == {PyStr(<<"N","o"," ","S","u","b","j","e","c","t">>), PyStr(<<"s","e","e"," ","b","i","t",".","l","y","/","x">>)}
BODIES == {PyStr(<<>>), PyStr(<<"V","i","s","i","t"," ","h","t","t","p",":","/","/","e","x","a","m","p","l","e",".","c","o","m",".">>),
           PyStr(<<"s","e","e"," ","w","w","w",".","g","o","o","g","l","e",".","c","o","m",","," ","o","r"," ","h","t","t","p","s",":","/","/","b","i","t",".","l","y","/","x"," ","n","o","w">>)}


\* the risk scores: 0 up to the cap of _calculate_risk_score
Scores == 0..100

RECURSIVE SeqsUpTo(_, _)
SeqsUpTo(S, n) ==
    IF n = 0 THEN {<<>>}
    ELSE LET shorter == SeqsUpTo(S, n - 1)
         IN  shorter \cup {Append(q, x) : q \in {r \in shorter : Len(r) = n - 1}, x \in S}

---------------------------------------------------------------------------
(* The state machine *)

\* the reference lists as __init__ sets them
SUSPICIOUS_TLDS == <<<<".","t","k">>, <<".","m","l">>, <<".","g","a">>, <<".","c","f">>, <<".","p","w">>, <<".","c","c">>>>
URL_SHORTENERS == <<<<"t","i","n","y","u","r","l">>, <<"b","i","t",".","l","y">>, <<"g","o","o",".","g","l">>, <<"t",".","c","o">>, <<"o","w",".","l","y">>, <<"t","i","n","y",".","c","c">>,
                    <<"i","s",".","g","d">>, <<"b","u","f","f",".","l","y">>, <<"s","h","o","r","t",".","l","i","n","k">>, <<"r","e","b","r","a","n","d",".","l","y">>>>
LEGITIMATE_DOMAINS == <<<<"g","o","o","g","l","e",".","c","o","m">>, <<"f","a","c","e","b","o","o","k",".","c","o","m">>, <<"a","m","a","z","o","n",".","c","o","m">>,
                        <<"m","i","c","r","o","s","o","f","t",".","c","o","m">>, <<"a","p","p","l","e",".","c","o","m">>, <<"t","w","i","t","t","e","r",".","c","o","m">>,
                        <<"l","i","n","k","e","d","i","n",".","c","o","m">>, <<"g","i","t","h","u","b",".","c","o","m">>, <<"s","t","a","c","k","o","v","e","r","f","l","o","w",".","c","o","m">>,
                        <<"w","i","k","i","p","e","d","i","a",".","o","r","g">>>>

Init ==
    /\ suspicious_tlds = SUSPICIOUS_TLDS
    /\ url_shorteners = URL_SHORTENERS
    /\ legitimate_domains = LEGITIMATE_DOMAINS
    /\ pc = "idle"
    /\ op = "none"
    /\ arg = PyNone
    /\ ret = PyNone
    /\ exc = "none"
    /\ urls = <<>>
    /\ pos = 0
    /\ results = <<>>
    /\ findings = <<>>
    /\ used = FALSE
    /\ gmail_api_available = FALSE
    /\ service = FALSE
    /\ message_ids = <<>>
    /\ msg_pos = 0
    /\ all_urls = <<>>
    /\ suspicious_emails = <<>>
    /\ shown = "nothing"
    /\ source_log = <<>>

detector == <<suspicious_tlds, url_shorteners, legitimate_domains>>

gmail == <<gmail_api_available, service, message_ids, msg_pos, all_urls,
           suspicious_emails, shown, source_log>>

\* a variant of the shortener loop that takes the entries off the list
detector_after_popping(tlds, shorteners, legit) ==
    <<tlds, IF shorteners = <<>> THEN <<>> ELSE Tail(shorteners), legit>>

\* the three lists after a call of analyze_url: its checks iterate over them
\* and assign to no attribute of self
detector_after_analysis(tlds, shorteners, legit) == <<tlds, shorteners, legit>>

\* self after analyze_url has run on it
AnalysisKeepsDetector ==
    /\ suspicious_tlds' =
          detector_after_analysis(suspicious_tlds, url_shorteners, legitimate_domains)[1]
    /\ url_shorteners' =
          detector_after_analysis(suspicious_tlds, url_shorteners, legitimate_domains)[2]
    /\ legitimate_domains' =
          detector_after_analysis(suspicious_tlds, url_shorteners, legitimate_domains)[3]

\* detector.analyze_url(v)
AnalyzeUrl ==
    /\ pc = "idle"
    /\ \E v \in ExtendedValues :
          /\ arg' = v
          /\ exc' = analyze_url_exc(v)
          /\ IF analyze_url_exc(v) = "none"
             THEN \E now \in Timestamps : ret' = analyze_url(v, now)
             ELSE ret' = PyNone
    /\ op' = "analyze_url"
    /\ pc' = "returned"
    /\ AnalysisKeepsDetector
    /\ UNCHANGED <<urls, pos, results, findings, used, gmail>>

\* detector.batch_analyze(us): results = []
BatchStart ==
    /\ pc = "idle"
    /\ \E us \in SeqsUpTo(BatchValues, MaxBatchLen) :
          /\ arg' = us
          /\ urls' = us
    /\ pos' = 0
    /\ results' = <<>>
    /\ op' = "batch_analyze"
    /\ pc' = "batch"
    /\ UNCHANGED <<detector, ret, exc, findings, used, gmail>>

\* one iteration of "for url in urls": the try statement; an exception
\* that the except clause does not catch leaves batch_analyze
BatchStep ==
    /\ pc = "batch"
    /\ pos < Len(urls)
    /\ IF analyze_url_exc(urls[pos + 1]) = "none" \/ batch_catches(analyze_url_exc(urls[pos + 1]))
       THEN /\ \E now \in Timestamps :
                  results' = batch_append(results, urls[pos + 1], now)
            /\ pos' = pos + 1
            /\ UNCHANGED <<pc, ret, exc>>
       ELSE /\ exc' = analyze_url_exc(urls[pos + 1])
            /\ ret' = PyNone
            /\ pc' = "returned"
            /\ UNCHANGED <<pos, results>>
    /\ AnalysisKeepsDetector
    /\ UNCHANGED <<op, arg, urls, findings, used, gmail>>

\* return results
BatchReturn ==
    /\ pc = "batch"
    /\ pos = Len(urls)
    /\ ret' = results
    /\ exc' = "none"
    /\ pc' = "returned"
    /\ UNCHANGED <<detector, op, arg, urls, pos, results, findings, used, gmail>>

\* analyze_url(v) with the five entries of 'checks' evaluated in any order
ChecksStart ==
    /\ pc = "idle"
    /\ \E v \in CheckOrderValues : arg' = v
    /\ findings' = <<>>
    /\ op' = "analyze_url_any_order"
    /\ pc' = "checks"
    /\ UNCHANGED <<detector, ret, exc, urls, pos, results, used, gmail>>

\* one check that has not been evaluated yet is called
RunCheck ==
    /\ pc = "checks"
    /\ \E name \in CHECK_NAMES \ DOMAIN findings :
          findings' = [n \in DOMAIN findings \cup {name} |->
                          IF n = name THEN check_finding(name, arg.s) ELSE findings[n]]
    /\ UNCHANGED <<detector, pc, op, arg, ret, exc, urls, pos, results, used, gmail>>

\* all five findings are there: the score, the level, the flag and the
\* recommendations are computed from them
ChecksJoin ==
    /\ pc = "checks"
    /\ DOMAIN findings = CHECK_NAMES
    /\ \E now \in Timestamps : ret' = score_checks(arg, now, findings)
    /\ exc' = "none"
    /\ pc' = "returned"
    /\ AnalysisKeepsDetector
    /\ UNCHANGED <<op, arg, urls, pos, results, findings, used, gmail>>

\* the normalizer applied to a string
NormalizeUrl ==
    /\ pc = "idle"
    /\ \E u \in UrlStrings :
          /\ arg' = PyStr(u)
          /\ ret' = PyStr(normalize_url(u))
    /\ exc' = "none"
    /\ op' = "normalize_url"
    /\ pc' = "returned"
    /\ UNCHANGED <<detector, urls, pos, results, findings, used, gmail>>

\* extractor.extract_urls_from_text(text); list(set(...)) fixes no order
ExtractUrls ==
    /\ pc = "idle"
    /\ \E text \in {PyStr(t) : t \in TEXTS} \cup {PyNone} :
          /\ arg' = text
          /\ ret' \in ListsOf(extract_urls_from_text(text))
    /\ exc' = "none"
    /\ op' = "extract_urls_from_text"
    /\ pc' = "returned"
    /\ UNCHANGED <<detector, urls, pos, results, findings, used, gmail>>

\* phishing_detector.is_phishing_url(v)
IsPhishingUrl ==
    /\ pc = "idle"
    /\ \E v \in ExtendedValues :
          /\ arg' = v
          /\ ret' = is_phishing_url(v)
    /\ exc' = "none"
    /\ op' = "is_phishing_url"
    /\ pc' = "returned"
    /\ UNCHANGED <<detector, urls, pos, results, findings, used, gmail>>

\* phishing_detector.analyze_url_details(v)
AnalyzeUrlDetails ==
    /\ pc = "idle"
    /\ \E v \in ExtendedValues :
          /\ arg' = v
          /\ ret' = analyze_url_details(v)
    /\ exc' = "none"
    /\ op' = "analyze_url_details"
    /\ pc' = "returned"
    /\ UNCHANGED <<detector, urls, pos, results, findings, used, gmail>>

\* detector._get_risk_level(score)
GetRiskLevel ==
    /\ pc = "idle"
    /\ \E score \in Scores :
          /\ arg' = score
          /\ ret' = get_risk_level(score)
    /\ exc' = "none"
    /\ op' = "get_risk_level"
    /\ pc' = "returned"
    /\ UNCHANGED <<detector, urls, pos, results, findings, used, gmail>>

\* detector._get_recommendations(analysis), for an analysis with that score
GetRecommendations ==
    /\ pc = "idle"
    /\ \E score \in Scores :
          /\ arg' = score
          /\ ret' = get_recommendations([risk_score |-> score])
    /\ exc' = "none"
    /\ op' = "get_recommendations"
    /\ pc' = "returned"
    /\ UNCHANGED <<detector, urls, pos, results, findings, used, gmail>>

\* extractor.analyze_gmail_urls(), up to the authentication: without the
\* Gmail libraries it goes to demo_mode
GmailStart ==
    /\ pc = "idle"
    /\ \E available \in BOOLEAN :
          /\ gmail_api_available' = available
          /\ IF available
               THEN /\ pc' = "gmail_authenticate"
                    /\ shown' = "nothing"
               ELSE /\ pc' = "returned"
                    /\ shown' = "demo"
    /\ op' = "analyze_gmail_urls"
    /\ arg' = PyNone
    /\ ret' = PyNone
    /\ exc' = "none"
    /\ UNCHANGED <<detector, urls, pos, results, findings, used, service,
                   message_ids, msg_pos, all_urls, suspicious_emails, source_log>>

\* authenticate_gmail() inside analyze_gmail_urls: it returns True with the
\* service built, returns False without credentials.json, or one of its
\* calls (pickle.load, creds.refresh, run_local_server, build) raises
GmailAuthenticate ==
    /\ pc = "gmail_authenticate"
    /\ \E outcome \in {"True", "False", "raises"} :
          /\ source_log' = Append(source_log,
                 source_call("authenticate_gmail", 0, outcome, PyNone, PyNone))
          /\ CASE outcome = "True" ->
                    /\ service' = TRUE
                    /\ pc' = "gmail_list"
                    /\ UNCHANGED <<shown, exc>>
               [] outcome = "False" ->
                    /\ shown' = "demo"
                    /\ pc' = "returned"
                    /\ UNCHANGED <<service, exc>>
               [] outcome = "raises" ->
                    /\ exc' = "Exception"
                    /\ pc' = "returned"
                    /\ UNCHANGED <<service, shown>>
    /\ UNCHANGED <<detector, op, arg, ret, urls, pos, results, findings, used,
                   gmail_api_available, message_ids, msg_pos, all_urls,
                   suspicious_emails>>

\* get_recent_emails() inside analyze_gmail_urls: the ids listed, or [] when
\* the listing raises; without ids the run ends
GmailList ==
    /\ pc = "gmail_list"
    /\ \E outcome \in {"listed", "raises"}, n \in 0..MaxMessages :
          /\ outcome = "raises" => n = 0
          /\ source_log' = Append(source_log,
                 source_call("get_recent_emails", 0, outcome, PyNone, PyNone))
          /\ IF n = 0
               THEN /\ shown' = "no emails"
                    /\ pc' = "returned"
                    /\ UNCHANGED message_ids
               ELSE /\ message_ids' = [i \in 1..n |-> i]
                    /\ pc' = "gmail_loop"
                    /\ UNCHANGED shown
    /\ msg_pos' = 0
    /\ all_urls' = <<>>
    /\ suspicious_emails' = <<>>
    /\ UNCHANGED <<detector, op, arg, ret, exc, urls, pos, results, findings, used,
                   gmail_api_available, service>>

\* one turn of the loop of analyze_gmail_urls: get_email_content() gives the
\* subject and body, or (None, None) when the fetch raises
GmailFetch ==
    /\ pc = "gmail_loop"
    /\ msg_pos < Len(message_ids)
    /\ \E outcome \in {"fetched", "raises"}, subject \in SUBJECTS \cup {PyNone},
          body \in BODIES \cup {PyNone} :
          /\ IF outcome = "raises" THEN subject = PyNone /\ body = PyNone
                                    ELSE subject # PyNone /\ body # PyNone
          /\ source_log' = Append(source_log,
                 source_call("get_email_content", message_ids[msg_pos + 1], outcome,
                             subject, body))
          /\ IF body.s = <<>>
               THEN UNCHANGED <<all_urls, suspicious_emails>>
               ELSE \E found \in ListsOf(extract_urls_from_text(
                                            PyStr(subject.s \o <<" ">> \o body.s))) :
                       /\ all_urls' = all_urls \o found
                       /\ suspicious_emails' = suspicious_emails_appended(
                              suspicious_emails, subject.s, found,
                              message_ids[msg_pos + 1])
    /\ msg_pos' = msg_pos + 1
    /\ UNCHANGED <<detector, pc, op, arg, ret, exc, urls, pos, results, findings,
                   used, gmail_api_available, service, message_ids, shown>>

\* the loop of analyze_gmail_urls is over: display_results()
GmailDisplay ==
    /\ pc = "gmail_loop"
    /\ msg_pos = Len(message_ids)
    /\ shown' = "results"
    /\ pc' = "returned"
    /\ UNCHANGED <<detector, op, arg, ret, exc, urls, pos, results, findings, used,
                   gmail_api_available, service, message_ids, msg_pos, all_urls,
                   suspicious_emails, source_log>>

\* the caller has reported the outcome and drops it, and the extractor of
\* the call with it; the detector stays
Return ==
    /\ pc = "returned"
    /\ pc' = "idle"
    /\ op' = "none"
    /\ arg' = PyNone
    /\ ret' = PyNone
    /\ exc' = "none"
    /\ urls' = <<>>
    /\ pos' = 0
    /\ results' = <<>>
    /\ findings' = <<>>
    /\ used' = TRUE
    /\ gmail_api_available' = FALSE
    /\ service' = FALSE
    /\ message_ids' = <<>>
    /\ msg_pos' = 0
    /\ all_urls' = <<>>
    /\ suspicious_emails' = <<>>
    /\ shown' = "nothing"
    /\ source_log' = <<>>
    /\ UNCHANGED detector

Next ==
    \/ AnalyzeUrl
    \/ BatchStart
    \/ BatchStep
    \/ BatchReturn
    \/ ChecksStart
    \/ RunCheck
    \/ ChecksJoin
    \/ NormalizeUrl
    \/ ExtractUrls
    \/ IsPhishingUrl
    \/ AnalyzeUrlDetails
    \/ GetRiskLevel
    \/ GetRecommendations
    \/ GmailStart
    \/ GmailAuthenticate
    \/ GmailList
    \/ GmailFetch
    \/ GmailDisplay
    \/ Return

Spec == Init /\ [][Next]_vars

---------------------------------------------------------------------------
(* The claims *)

\* analyze_url has returned a result to its caller
Analyzed == pc = "returned" /\ op = "analyze_url" /\ exc = "none"

\* every analysis result the state holds: the one analyze_url returned, and
\* the ones batch_analyze has appended
BatchAnalyses ==
    {results[i] : i \in {j \in 1..Len(results) : "risk_score" \in DOMAIN results[j]}}
AllAnalyses == IF Analyzed THEN {ret} \cup BatchAnalyses ELSE BatchAnalyses

FivePoints(a) ==
    a.checks.basic_patterns.risk_points + a.checks.domain_analysis.risk_points
    + a.checks.typosquatting.risk_points + a.checks.ssl_check.risk_points
    + a.checks.url_structure.risk_points

\* C1: every risk_score is an integer in 0..100 and equals the sum of the
\* risk_points of the five findings, or exactly 100 when that sum is above 100
C1_RiskScoreIsCappedSum ==
    \A a \in AllAnalyses :
        /\ a.risk_score \in 0..100
        /\ a.risk_score = IF FivePoints(a) > 100 THEN 100 ELSE FivePoints(a)

\* a URL whose five findings add up to more than 100 has been analysed
C1_Witness == Analyzed /\ FivePoints(ret) > 100 /\ ret.risk_score = 100

\* C2: is_suspicious is true exactly when risk_score >= 30, which is exactly
\* when risk_level is MEDIUM, HIGH or CRITICAL; otherwise the level is
\* MINIMAL or LOW
C2_SuspiciousIffThirty ==
    \A a \in AllAnalyses :
        /\ a.is_suspicious \in BOOLEAN
        /\ a.is_suspicious <=> a.risk_score >= 30
        /\ a.is_suspicious <=> a.risk_level \in {"MEDIUM", "HIGH", "CRITICAL"}
        /\ ~a.is_suspicious <=> a.risk_level \in {"MINIMAL", "LOW"}

\* a result that sits on the threshold, and is suspicious
C2_Witness == Analyzed /\ ret.risk_score = 30 /\ ret.is_suspicious

\* C3: for every score in 0..100 _get_risk_level returns the level of the
\* table: CRITICAL from 70, HIGH for 50..69, MEDIUM for 30..49, LOW for
\* 10..29, MINIMAL for 0..9
C3_RiskLevelTable ==
    (pc = "returned" /\ op = "get_risk_level") =>
        /\ ret \in {"CRITICAL", "HIGH", "MEDIUM", "LOW", "MINIMAL"}
        /\ arg \in 70..100 <=> ret = "CRITICAL"
        /\ arg \in 50..69 <=> ret = "HIGH"
        /\ arg \in 30..49 <=> ret = "MEDIUM"
        /\ arg \in 10..29 <=> ret = "LOW"
        /\ arg \in 0..9 <=> ret = "MINIMAL"

\* the lowest CRITICAL score has been mapped
C3_Witness == pc = "returned" /\ op = "get_risk_level" /\ arg = 70 /\ ret = "CRITICAL"

\* the lowest score of the band a score falls in
BandFloor(score) ==
    IF score >= 50 THEN 50 ELSE IF score >= 30 THEN 30 ELSE IF score >= 10 THEN 10 ELSE 0

HasDoNot(recs) == \E i \in 1..Len(recs) : Contains(recs[i], <<"D","O"," ","N","O","T">>)

\* C4: for every score in 0..100 the recommendation list has 3 entries and is
\* the list of the score's band (>= 50, 30..49, 10..29, < 10); every score
\* >= 50 gets a list with a DO NOT message, and so does every analysis result
C4_RecommendationsByBand ==
    /\ (pc = "returned" /\ op = "get_recommendations") =>
          /\ Len(ret) = 3
          /\ ret = get_recommendations([risk_score |-> BandFloor(arg)])
          /\ arg >= 50 => HasDoNot(ret)
    /\ \A a \in AllAnalyses :
          /\ Len(a.recommendations) = 3
          /\ a.recommendations = get_recommendations([risk_score |-> BandFloor(a.risk_score)])
          /\ a.risk_score >= 50 => HasDoNot(a.recommendations)

\* a CRITICAL score inside its band has got the strong warning
C4_Witness ==
    pc = "returned" /\ op = "get_recommendations" /\ arg = 85 /\ HasDoNot(ret)

\* the str elements of us that urlparse rejects
Malformed(v) == IsStr(v) /\ ~UrlParse(v.s).ok

\* C5: the output of batch_analyze is as long as its input and entry i
\* carries input element i as its url; while the loop runs the results are
\* such a prefix
C5_BatchKeepsLengthAndOrder ==
    (op = "batch_analyze") =>
        /\ Len(results) = pos
        /\ \A i \in 1..Len(results) : results[i].url = urls[i]
        /\ (pc = "returned" /\ exc = "none") =>
              /\ Len(ret) = Len(arg)
              /\ \A i \in 1..Len(ret) : ret[i].url = arg[i]

\* a batch of two or more that holds a malformed string has been returned
C5_Witness ==
    /\ pc = "returned" /\ op = "batch_analyze" /\ Len(ret) >= 2
    /\ \E i \in 1..Len(arg) : Malformed(arg[i])

\* C6: an element for which analyze_url raises gets an error record with the
\* element as url, the error text and no risk_score; every other position
\* holds what analyze_url returns for that element alone; batch_analyze does
\* not raise and goes on to the end of the input
C6_BatchIsolatesFailures ==
    (op = "batch_analyze") =>
        /\ exc = "none"
        /\ \A i \in 1..Len(results) :
              IF analyze_url_exc(urls[i]) /= "none"
              THEN results[i] = [url |-> urls[i], error |-> ATTRIBUTE_ERROR_TEXT,
                                 risk_level |-> "ERROR"]
              ELSE /\ "error" \notin DOMAIN results[i]
                   /\ results[i] = analyze_url(urls[i], results[i].timestamp)
        /\ pc = "returned" => (ret = results /\ Len(ret) = Len(arg))

\* a batch whose first element failed and whose second was analysed
C6_Witness ==
    /\ pc = "returned" /\ op = "batch_analyze" /\ Len(ret) = 2
    /\ analyze_url_exc(arg[1]) /= "none"
    /\ "error" \in DOMAIN ret[1]
    /\ "risk_score" \in DOMAIN ret[2]

\* C7: for a str URL that urlparse rejects analyze_url returns a result with
\* all five findings: domain_analysis has 20 points and is_ip, has_numbers,
\* has_hyphens false; typosquatting has 0 points and no target; ssl_check
\* and url_structure have 5 points each
C7_ParseFailureFallbacks ==
    /\ (pc = "returned" /\ op = "analyze_url" /\ Malformed(arg)) => exc = "none"
    /\ \A a \in AllAnalyses :
          Malformed(a.url) =>
              /\ DOMAIN a.checks = CHECK_NAMES
              /\ a.checks.domain_analysis.risk_points = 20
              /\ ~a.checks.domain_analysis.is_ip
              /\ ~a.checks.domain_analysis.has_numbers
              /\ ~a.checks.domain_analysis.has_hyphens
              /\ a.checks.typosquatting.risk_points = 0
              /\ a.checks.typosquatting.potential_target = PyNone
              /\ ~a.checks.typosquatting.is_typosquatting
              /\ a.checks.ssl_check.risk_points = 5
              /\ a.checks.url_structure.risk_points = 5

\* a rejected URL whose text has digits and a "%" has been analysed
C7_Witness ==
    /\ Analyzed /\ Malformed(arg)
    /\ HasDigit(arg.s) /\ Contains(arg.s, <<"%">>)

\* the input is None, or a str that is empty or all whitespace
IsBlank(v) == ~IsStr(v) \/ \A i \in 1..Len(v.s) : v.s[i] \in WHITESPACE

\* a complete result of analyze_url
IsComplete(a) ==
    /\ DOMAIN a = {"url", "timestamp", "risk_score", "risk_level",
                   "is_suspicious", "checks", "recommendations"}
    /\ DOMAIN a.checks = CHECK_NAMES
    /\ Len(a.recommendations) = 3

\* C8: for empty, whitespace-only or absent (None) input analyze_url returns
\* a complete result and no exception escapes it
C8_BlankInputIsAnalysed ==
    (pc = "returned" /\ op = "analyze_url" /\ IsBlank(arg)) =>
        (exc = "none" /\ IsComplete(ret))

\* C9: is_phishing_url returns True for the empty string, for a
\* whitespace-only string and for None, and does not raise
C9_BlankIsPhishing ==
    (pc = "returned" /\ op = "is_phishing_url" /\ IsBlank(arg)) =>
        (ret = TRUE /\ exc = "none")

\* is_phishing_url has answered for a non-empty string of whitespace
C9_Witness ==
    /\ pc = "returned" /\ op = "is_phishing_url"
    /\ IsStr(arg) /\ Len(arg.s) > 1 /\ IsBlank(arg) /\ ret = TRUE

\* C10: every finding has risk_points in Nat, the risk_score is at least
\* min(100, p) for the points p of each finding, and a URL flagged as
\* url_shortener, with a suspicious character or as is_ip has risk_score > 0
C10_PointsOnlyAdd ==
    \A a \in AllAnalyses :
        /\ \A n \in DOMAIN a.checks :
              /\ a.checks[n].risk_points \in Nat
              /\ a.risk_score >= Min(100, a.checks[n].risk_points)
        /\ ( \/ a.checks.basic_patterns.url_shortener
             \/ a.checks.basic_patterns.suspicious_chars /= <<>>
             \/ a.checks.domain_analysis.is_ip ) => a.risk_score > 0

\* an https URL with a shortener and a suspicious character has been scored
C10_Witness ==
    /\ Analyzed
    /\ ret.checks.basic_patterns.url_shortener
    /\ ret.checks.basic_patterns.suspicious_chars /= <<>>
    /\ ret.checks.ssl_check.has_ssl
    /\ ret.risk_score > 0

\* C11: the checks do not depend on each other: in whatever order the five
\* are evaluated, each finding is the one the sequential analyze_url computes
\* for the URL, and the joined result has the same findings, risk_score,
\* risk_level, is_suspicious and recommendations
C11_ChecksAreIndependent ==
    (op = "analyze_url_any_order") =>
        /\ \A n \in DOMAIN findings : findings[n] = run_checks(arg.s)[n]
        /\ pc = "returned" => ret = analyze_url(arg, ret.timestamp)

\* url_structure and ssl_check were evaluated first, before the three checks
\* analyze_url calls before them, for a URL whose host is an IP address
C11_Witness ==
    /\ pc = "checks" /\ op = "analyze_url_any_order"
    /\ DOMAIN findings = {"url_structure", "ssl_check"}
    /\ MatchesIpPattern(UrlParse(arg.s).netloc)

\* C12: after any sequence of analyze_url and batch_analyze calls the three
\* reference lists are as __init__ set them, and every analysis result, on a
\* fresh detector or on a used one, is the result analyze_url gives for that
\* URL alone (apart from the timestamp)
C12_NothingCarriedOver ==
    /\ suspicious_tlds = SUSPICIOUS_TLDS
    /\ url_shorteners = URL_SHORTENERS
    /\ legitimate_domains = LEGITIMATE_DOMAINS
    /\ \A a \in AllAnalyses : a = analyze_url(a.url, a.timestamp)

\* a detector that has served calls before analyses a shortener URL
C12_Witness ==
    /\ used /\ Analyzed
    /\ ret.checks.basic_patterns.url_shortener
    /\ ret = analyze_url(arg, ret.timestamp)

HasHttpScheme(url) == StartsWith(url, <<"h","t","t","p",":","/","/">>) \/ StartsWith(url, <<"h","t","t","p","s",":","/","/">>)

\* C13: the normalizer does not fail; it returns a string that starts with
\* 'http://' or 'https://' unchanged and any other string with 'https://'
\* put in front, so its output always starts with one of the two schemes
\* and normalizing the output again changes nothing
C13_NormalizerAddsScheme ==
    (pc = "returned" /\ op = "normalize_url") =>
        /\ exc = "none"
        /\ IsStr(ret)
        /\ HasHttpScheme(arg.s) => ret.s = arg.s
        /\ ~HasHttpScheme(arg.s) => ret.s = <<"h","t","t","p","s",":","/","/">> \o arg.s
        /\ HasHttpScheme(ret.s)
        /\ normalize_url(ret.s) = ret.s

\* a string with the scheme in capitals got 'https://' put in front, and a
\* second pass leaves that alone
C13_Witness ==
    /\ pc = "returned" /\ op = "normalize_url"
    /\ StartsWith(arg.s, <<"H","T","T","P","S",":","/","/">>)
    /\ ret.s = <<"h","t","t","p","s",":","/","/">> \o arg.s
    /\ normalize_url(ret.s) = ret.s

\* C14: analyze_url and batch_analyze score a string without a scheme as
\* they score the string with 'https://' put in front: the same findings
\* and the same risk_score
C14_PipelineNormalizes ==
    \A a \in AllAnalyses :
        ~HasHttpScheme(a.url.s) =>
            /\ a.checks = run_checks(normalize_url(a.url.s))
            /\ a.risk_score = calculate_risk_score(run_checks(normalize_url(a.url.s)))

Extracted == pc = "returned" /\ op = "extract_urls_from_text"

\* the punctuation a sentence puts after a URL
TRAILING_PUNCTUATION == {".", ",", ";", ":", "!", "?"}

RECURSIVE StripTrailingPunctuation(_)
StripTrailingPunctuation(m) ==
    IF m /= <<>> /\ m[Len(m)] \in TRAILING_PUNCTUATION
    THEN StripTrailingPunctuation(SubSeq(m, 1, Len(m) - 1)) ELSE m

InSeq(q, x) == \E i \in 1..Len(q) : q[i] = x

\* C15: every match of the pattern, one that ends in a '.' included, is in
\* the output as its form with the trailing punctuation stripped and the
\* normalizer applied; every returned URL starts with 'http://' or
\* 'https://'; no URL is returned twice; empty text gives an empty result
C15_MatchesStrippedAndNormalized ==
    Extracted =>
        /\ IsStr(arg) =>
              \A k \in 1..Len(FindAll(arg.s)) :
                  InSeq(ret, normalize_url(StripTrailingPunctuation(FindAll(arg.s)[k])))
        /\ \A i \in 1..Len(ret) : HasHttpScheme(ret[i])
        /\ \A i, j \in 1..Len(ret) : ret[i] = ret[j] => i = j
        /\ (IsStr(arg) /\ arg.s = <<>>) => ret = <<>>

Elements(q) == {q[i] : i \in 1..Len(q)}

\* repr() of a str without control characters: backslashes doubled, in
\* double quotes when it holds a ' and no ", else in single quotes with
\* every ' escaped
RECURSIVE EscapeFor(_, _)
EscapeFor(u, quote) ==
    IF u = <<>> THEN <<>>
    ELSE (IF Head(u) = "\\" \/ Head(u) = quote THEN <<"\\", Head(u)>> ELSE <<Head(u)>>)
         \o EscapeFor(Tail(u), quote)

QuoteWith(u, quote) == <<quote>> \o EscapeFor(u, quote) \o <<quote>>

Repr(u) ==
    IF Contains(u, <<"'">>) /\ ~Contains(u, <<"\"">>) THEN QuoteWith(u, "\"")
    ELSE QuoteWith(u, "'")

RECURSIVE JoinReprFrom(_, _)
JoinReprFrom(q, i) ==
    IF i > Len(q) THEN <<>>
    ELSE (IF i > 1 THEN <<","," ">> ELSE <<>>) \o Repr(q[i]) \o JoinReprFrom(q, i + 1)

\* str() of a list of str
render_repr(q) == <<"[">> \o JoinReprFrom(q, 1) \o <<"]">>

----------------------------------------------------------------------------
(* The email source *)

GmailRunOver == pc = "returned" /\ op = "analyze_gmail_urls"

\* the calls of that name the run has made to the email source
CallsOf(call) == SelectSeq(source_log, LAMBDA c : c.call = call)

Raised(call) == \E i \in 1..Len(CallsOf(call)) : CallsOf(call)[i].outcome = "raises"

\* the URLs the fetched messages hold, fetch by fetch
FetchedUrls ==
    UNION {extract_urls_from_text(PyStr(c.subject.s \o <<" ">> \o c.body.s)) :
             c \in {d \in Elements(CallsOf("get_email_content")) : d.body.s # <<>>}}

\* every listed message was fetched once, in the order listed, and the URLs
\* of every message that could be fetched were collected
AllMessagesProcessed ==
    /\ Len(CallsOf("get_email_content")) = Len(message_ids)
    /\ \A i \in 1..Len(message_ids) :
          CallsOf("get_email_content")[i].message_id = message_ids[i]
    /\ Elements(all_urls) = FetchedUrls

NoStepRetried ==
    /\ Len(CallsOf("authenticate_gmail")) <= 1
    /\ Len(CallsOf("get_recent_emails")) <= 1
    /\ Len(CallsOf("get_email_content")) <= Len(message_ids)

\* what the run does on each failure, apart from whether one escapes
FailuresHandled ==
    GmailRunOver =>
        /\ ~gmail_api_available => shown = "demo"
        /\ (CallsOf("authenticate_gmail") # <<>>
              /\ CallsOf("authenticate_gmail")[1].outcome = "False") => shown = "demo"
        /\ Raised("get_recent_emails") => shown = "no emails"
        /\ shown = "results" => AllMessagesProcessed
        /\ NoStepRetried

\* C17: no failure of the email source escapes analyze_gmail_urls as an
\* exception: unavailable libraries and a failed or raising authentication
\* lead to the demo data, a listing failure ends the run with no emails, a
\* fetch failure skips that message only, and no step is retried
C17_NoFailureEscapes ==
    /\ FailuresHandled
    /\ GmailRunOver =>
          /\ exc = "none"
          /\ Raised("authenticate_gmail") => shown = "demo"

----------------------------------------------------------------------------
(* The simple check *)

SimpleChecked == pc = "returned" /\ op = "is_phishing_url"

\* the last index of c in s, 0 when there is none
LastIndexOf(s, c) ==
    IF \E i \in 1..Len(s) : s[i] = c
    THEN CHOOSE i \in 1..Len(s) : s[i] = c /\ \A j \in (i + 1)..Len(s) : s[j] # c
    ELSE 0

\* the first index of c in s, Len(s) + 1 when there is none
FirstIndexOf(s, c) ==
    IF \E i \in 1..Len(s) : s[i] = c
    THEN CHOOSE i \in 1..Len(s) : s[i] = c /\ \A j \in 1..(i - 1) : s[j] # c
    ELSE Len(s) + 1

\* the host a network location names: what follows the user information,
\* without the port, in lower case
HostPort(netloc) == From(netloc, LastIndexOf(netloc, "@") + 1)

HostOf(hostport) ==
    IF StartsWith(hostport, <<"[">>) /\ FirstIndexOf(hostport, "]") <= Len(hostport)
    THEN SubSeq(hostport, 2, FirstIndexOf(hostport, "]") - 1)
    ELSE SubSeq(hostport, 1, FirstIndexOf(hostport, ":") - 1)

Hostname(netloc) == Lower(HostOf(HostPort(netloc)))

\* the host of a URL, empty when it names none or cannot be parsed
UrlHost(url) == IF UrlParse(url).ok THEN Hostname(UrlParse(url).netloc) ELSE <<>>

HasSuspiciousChars(url) ==
    \E i \in 1..Len(SIMPLE_SUSPICIOUS_CHARS) :
        Contains(Lower(url), SIMPLE_SUSPICIOUS_CHARS[i])

\* C18: is_phishing_url returns True for every URL whose host is a known
\* shortener host or a subdomain of one, whose lowercased text contains one
\* of '@', '==', '0x', '%00', '.exe', or that has more than 3 '.' characters
C18_IndicatorsAreFlagged ==
    (SimpleChecked /\ IsStr(arg)) =>
        ((\/ IsShortenerHost(UrlHost(arg.s), SIMPLE_SHORTENERS)
          \/ HasSuspiciousChars(arg.s)
          \/ Count(arg.s, ".") > 3) => ret = TRUE)

\* the same with the network location, port included, in place of the host
NetlocIndicatorsAreFlagged ==
    (SimpleChecked /\ IsStr(arg)) =>
        ((\/ UrlParse(arg.s).ok
               /\ IsShortenerHost(Lower(UrlParse(arg.s).netloc), SIMPLE_SHORTENERS)
          \/ HasSuspiciousChars(arg.s)
          \/ Count(arg.s, ".") > 3) => ret = TRUE)

\* the conditions under which a URL counts as legitimate, its host being host
LooksLegitimate(url, host) ==
    /\ Strip(url) # <<>>
    /\ UrlParse(url).ok
    /\ Count(url, ".") <= 3
    /\ Count(WithoutWww(host), ".") + 1 < 4
    /\ ~IsShortenerHost(host, SIMPLE_SHORTENERS)
    /\ ~HasSuspiciousChars(url)
    /\ ~MatchesIpPattern(host)
    /\ ~HasDigitsLettersDigits(host)
    /\ ~HasLettersDigitsLetters(host)
    /\ ~HasMultipleHyphens(host)
    /\ Len(host) <= 50

\* C19: is_phishing_url returns False for every non-blank, parseable URL
\* with at most 3 '.' characters whose host has fewer than 4 labels, is no
\* shortener host, does not start with an IPv4 address, matches none of the
\* three patterns and has at most 50 characters, and whose lowercased text
\* holds none of the suspicious character sequences
C19_LegitimateNotFlagged ==
    (SimpleChecked /\ IsStr(arg) /\ LooksLegitimate(arg.s, UrlHost(arg.s)))
        => ret = FALSE

\* the same with the network location, port included, in place of the host
NetlocLegitimateNotFlagged ==
    (SimpleChecked /\ IsStr(arg)
       /\ LooksLegitimate(arg.s, Lower(UrlParse(arg.s).netloc)))
        => ret = FALSE

NetlocLegitimateReached ==
    SimpleChecked /\ IsStr(arg) /\ LooksLegitimate(arg.s, Lower(UrlParse(arg.s).netloc))

----------------------------------------------------------------------------
(* The shortener flag of the lexical check *)

IsListedShortener(host) == \E i \in 1..Len(url_shorteners) : host = url_shorteners[i]

\* the points of the lexical finding b when the shortener counts 20 points
\* exactly if listed holds
BasicPointsWith(b, listed) ==
    10 * Len(b.suspicious_chars) + (IF listed THEN 20 ELSE 0)
    + (IF b.suspicious_tld THEN 15 ELSE 0)
    + (IF b.excessive_subdomains THEN 15 ELSE 0)

\* C20: the lexical check sets url_shortener, and adds 20 points once, if
\* and only if the host of the URL is on the list of URL-shortener hosts
C20_ShortenerFlagIffHostListed ==
    (Analyzed /\ IsStr(arg)) =>
        /\ ret.checks.basic_patterns.url_shortener
              = IsListedShortener(UrlHost(arg.s))
        /\ ret.checks.basic_patterns.risk_points
              = BasicPointsWith(ret.checks.basic_patterns,
                                IsListedShortener(UrlHost(arg.s)))

\* the flag on a URL with a scheme whose host is not on the list
ShortenerFlagOffList ==
    /\ Analyzed /\ IsStr(arg) /\ StartsWith(arg.s, <<"h","t","t","p","s",":","/","/","m","i","c","r","o","s","o","f","t",".","c","o","m">>)
    /\ ret.checks.basic_patterns.url_shortener
    /\ ret.checks.basic_patterns.risk_points = 20
    /\ ~IsListedShortener(UrlHost(arg.s))

----------------------------------------------------------------------------
(* The findings of the five checks *)

\* the finding of that name in the analysis analyze_url returned
Finding(name) == ret.checks[name]

StringAnalyzed == Analyzed /\ IsStr(arg)

\* C21: the points of the lexical finding are 10 for every entry of
\* suspicious_chars, which holds exactly those of '@', '%00', '.exe', '==',
\* '0x' that occur in the lowercased URL, plus 20 with url_shortener, plus
\* 15 with suspicious_tld (one of the six TLDs occurs in the lowercased
\* URL), plus 15 with excessive_subdomains (more than 3 '.'), and lie in
\* 0..100
C21_LexicalPoints ==
    StringAnalyzed =>
        /\ Finding("basic_patterns").suspicious_chars
              = FoundIn(BASIC_SUSPICIOUS_CHARS, Lower(arg.s))
        /\ Finding("basic_patterns").suspicious_tld
              = (\E i \in 1..Len(SUSPICIOUS_TLDS) :
                    Contains(Lower(arg.s), SUSPICIOUS_TLDS[i]))
        /\ Finding("basic_patterns").excessive_subdomains = (Count(arg.s, ".") > 3)
        /\ Finding("basic_patterns").risk_points
              = BasicPointsWith(Finding("basic_patterns"),
                                Finding("basic_patterns").url_shortener)
        /\ Finding("basic_patterns").risk_points \in 0..100

\* a URL with several suspicious character sequences, a suspicious TLD and
\* more than 3 dots was analyzed
C21_Witness ==
    /\ StringAnalyzed
    /\ Len(Finding("basic_patterns").suspicious_chars) >= 4
    /\ Finding("basic_patterns").suspicious_tld
    /\ Finding("basic_patterns").excessive_subdomains
    /\ Finding("basic_patterns").risk_points >= 70

\* the points host analysis gives a host
HostPoints(host) ==
    (IF MatchesIpPattern(host) THEN 25 ELSE 0)
    + (IF \E i \in 1..Len(host) : host[i] \in DIGITS THEN 5 ELSE 0)
    + (IF \E i \in 1..Len(host) : host[i] = "-" THEN 5 ELSE 0)
    + (IF Len(host) > 50 THEN 10 ELSE IF Len(host) < 4 THEN 15 ELSE 0)

\* the flags and the length host analysis records for a host
HostFlags(host) ==
    <<MatchesIpPattern(host), Len(host),
      \E i \in 1..Len(host) : host[i] \in DIGITS,
      \E i \in 1..Len(host) : host[i] = "-">>

FlagsOf(d) == <<d.is_ip, d.domain_length, d.has_numbers, d.has_hyphens>>

ParsedAnalyzed == StringAnalyzed /\ UrlParse(arg.s).ok

\* C22: for a parseable URL host analysis gives 25 points iff the host
\* starts with a dotted-quad address, 5 iff it holds a digit, 5 iff it
\* holds a hyphen, and 10 for a host above 50 characters or else 15 for one
\* below 4; is_ip, has_numbers and has_hyphens agree with the points, and
\* domain_length is the length of the host
C22_HostPoints ==
    ParsedAnalyzed =>
        /\ Finding("domain_analysis").risk_points = HostPoints(UrlHost(arg.s))
        /\ FlagsOf(Finding("domain_analysis")) = HostFlags(UrlHost(arg.s))

\* the same with the network location, port and user information included,
\* in place of the host
NetlocHostPoints ==
    ParsedAnalyzed =>
        /\ Finding("domain_analysis").risk_points
              = HostPoints(Lower(UrlParse(arg.s).netloc))
        /\ FlagsOf(Finding("domain_analysis"))
              = HostFlags(Lower(UrlParse(arg.s).netloc))

\* a host without a digit gets the 5 points of has_numbers for its port
PortCountedAsDigit ==
    /\ ParsedAnalyzed
    /\ Finding("domain_analysis").has_numbers
    /\ Finding("domain_analysis").risk_points = 5
    /\ HostPoints(UrlHost(arg.s)) = 0

\* the similarities of a label and the legitimate domains: pairs of an
\* index into the list and a fraction
RatiosOf(label) ==
    {<<n, Ratio(label, StripTld(LEGITIMATE_DOMAINS[n]))>> :
        n \in 1..Len(LEGITIMATE_DOMAINS)}

\* the first of the pairs whose ratio none of them is above
BestOf(ratios) ==
    CHOOSE p \in ratios :
        \A q \in ratios : /\ ~FracGt(q[2], p[2])
                          /\ q[1] < p[1] => FracGt(p[2], q[2])

SameFraction(x, y) == x[1] * y[2] = y[1] * x[2]

\* p = floor((r - 0.70) * 100) for the fraction r
IsScaledExcess(p, r) ==
    /\ p * 10 * r[2] <= 1000 * r[1] - 700 * r[2]
    /\ 1000 * r[1] - 700 * r[2] < (p + 1) * 10 * r[2]

\* the finding t is the one claimed for a label whose best match is the
\* n-th legitimate domain with similarity r
TyposquattingAsClaimed(t, label, n, r) ==
    IF FracGt(r, <<70, 100>>) /\ label # StripTld(LEGITIMATE_DOMAINS[n])
    THEN /\ t.is_typosquatting
         /\ t.potential_target = PyStr(LEGITIMATE_DOMAINS[n])
         /\ SameFraction(t.similarity_score, r)
         /\ IsScaledExcess(t.risk_points, r)
         /\ t.risk_points \in 0..30
    ELSE /\ ~t.is_typosquatting
         /\ t.potential_target = PyNone
         /\ t.risk_points = 0

TyposquattingOfBest(t, label, best) ==
    TyposquattingAsClaimed(t, label, best[1], best[2])

TyposquattingOfLabel(t, label) == TyposquattingOfBest(t, label, BestOf(RatiosOf(label)))

\* C23: the typosquatting check flags a URL exactly when the best
\* similarity over the legitimate domains is above 0.70 and the cleaned
\* label differs from that of the best match; it then records the domain
\* and the ratio and gives floor((ratio - 0.70) * 100) points, in 0..30;
\* in every other case, a parse failure included, it gives 0 points, no
\* target and no flag
C23_TyposquattingFlag ==
    StringAnalyzed =>
        IF UrlParse(arg.s).ok
        THEN TyposquattingOfLabel(Finding("typosquatting"),
                                  CleanDomain(UrlParse(arg.s).netloc))
        ELSE /\ ~Finding("typosquatting").is_typosquatting
             /\ Finding("typosquatting").potential_target = PyNone
             /\ Finding("typosquatting").risk_points = 0

\* a host one letter away from a legitimate domain was flagged with points
C23_Witness ==
    /\ ParsedAnalyzed
    /\ Finding("typosquatting").is_typosquatting
    /\ Finding("typosquatting").potential_target = PyStr(<<"g","o","o","g","l","e",".","c","o","m">>)
    /\ Finding("typosquatting").risk_points = 22

\* the label as claimed: the lowercased host without a leading 'www.' or
\* 'm.' and without a trailing common TLD
ClaimedLabel(host) == StripTld(StripPrefix(Lower(host)))

IsLegitimateHost(host) ==
    \E n \in 1..Len(LEGITIMATE_DOMAINS) :
        host \in {LEGITIMATE_DOMAINS[n], <<"w","w","w",".">> \o LEGITIMATE_DOMAINS[n],
                  <<"m",".">> \o LEGITIMATE_DOMAINS[n]}

\* C24: the label the typosquatting check compares is the lowercased host
\* with only a leading 'www.' or 'm.' and only a trailing common TLD
\* removed, nothing from the middle; a legitimate domain with or without
\* such a prefix gets 0 points
C24_LabelKeepsTheMiddle ==
    ParsedAnalyzed =>
        /\ Finding("typosquatting") = typosquatting_scan(ClaimedLabel(UrlHost(arg.s)))
        /\ IsLegitimateHost(UrlHost(arg.s)) => Finding("typosquatting").risk_points = 0

\* a host that holds 'www.' inside is taken for a legitimate domain
InnerWwwRemoved ==
    /\ ParsedAnalyzed
    /\ Contains(UrlHost(arg.s), <<"w","w","w",".">>) /\ ~StartsWith(UrlHost(arg.s), <<"w","w","w",".">>)
    /\ Finding("typosquatting").risk_points = 0
    /\ typosquatting_scan(ClaimedLabel(UrlHost(arg.s))).risk_points = 5

C26_StructurePoints ==
    ParsedAnalyzed =>
        /\ Finding("url_structure").path_depth = NonEmptyParts(UrlParse(arg.s).path, "/")
        /\ Finding("url_structure").has_query_params = (UrlParse(arg.s).query # <<>>)
        /\ Finding("url_structure").suspicious_params
              = FoundIn(SUSPICIOUS_PARAM_NAMES, Lower(UrlParse(arg.s).query))
        /\ Finding("url_structure").encoded_chars = Contains(arg.s, <<"%">>)
        /\ Finding("url_structure").risk_points
              = (IF Finding("url_structure").path_depth > 5 THEN 5 ELSE 0)
                + 10 * Len(Finding("url_structure").suspicious_params)
                + (IF Finding("url_structure").encoded_chars THEN 5 ELSE 0)
        /\ Finding("url_structure").risk_points <= 60

\* a URL with two suspicious parameters and a '%' got 25 points
C26_Witness ==
    /\ ParsedAnalyzed
    /\ Finding("url_structure").has_query_params
    /\ Len(Finding("url_structure").suspicious_params) = 2
    /\ Finding("url_structure").encoded_chars
    /\ Finding("url_structure").risk_points = 25

----------------------------------------------------------------------------
(* analyze_url_details *)

DetailsAnalyzed == pc = "returned" /\ op = "analyze_url_details"

\* the try block of analyze_url_details ran to its end
DetailsParsed == DetailsAnalyzed /\ IsStr(arg) /\ UrlParse(arg.s).ok

IsWarningList(recs) ==
    Len(recs) = 4 /\ recs[1] = <<"D","o"," ","n","o","t"," ","e","n","t","e","r"," ","p","e","r","s","o","n","a","l"," ","i","n","f","o","r","m","a","t","i","o","n"," ","o","n"," ","t","h","i","s"," ","s","i","t","e">>

IsReassuranceList(recs) ==
    Len(recs) = 3 /\ recs[1] = <<"U","R","L"," ","a","p","p","e","a","r","s"," ","s","a","f","e"," ","b","a","s","e","d"," ","o","n"," ","b","a","s","i","c"," ","c","h","e","c","k","s">>

\* C27: a result of analyze_url_details that parsed its URL is suspicious
\* iff it has a risk factor, and recommends the 4 warnings when suspicious
\* and the 3 reassurances otherwise; every result holds domain_info and
\* recommendations; when parsing raises the result is suspicious and its
\* risk factor is the parsing error
C27_DetailsAreConsistent ==
    DetailsAnalyzed =>
        /\ {"domain_info", "recommendations"} \subseteq DOMAIN ret
        /\ IF DetailsParsed
           THEN /\ ret.is_suspicious = (ret.risk_factors # <<>>)
                /\ IF ret.is_suspicious THEN IsWarningList(ret.recommendations)
                                        ELSE IsReassuranceList(ret.recommendations)
           ELSE /\ ret.is_suspicious
                /\ Len(ret.risk_factors) = 1
                /\ ret.risk_factors[1][1] = <<"U","R","L"," ","p","a","r","s","i","n","g"," ","e","r","r","o","r",":"," ">>

\* a URL with one risk factor got the warnings
C27_Witness ==
    /\ DetailsParsed
    /\ Len(ret.risk_factors) = 1
    /\ ret.is_suspicious /\ IsWarningList(ret.recommendations)

\* C30: whenever analyze_url_details calls a string URL suspicious,
\* is_phishing_url returns True for it
C30_DetailsImplyPhishing ==
    (DetailsAnalyzed /\ IsStr(arg) /\ ret.is_suspicious)
        => is_phishing_url(arg) = TRUE

\* a URL with an IP address inside its host, not at the start, is
\* suspicious for both
C30_Witness ==
    /\ DetailsParsed /\ ret.is_suspicious
    /\ SearchesIpPattern(UrlParse(arg.s).netloc)
    /\ ~MatchesIpPattern(Lower(UrlParse(arg.s).netloc))
    /\ is_phishing_url(arg) = TRUE

\* the converse fails: is_phishing_url flags a URL the details find nothing in
DetailsMissAPhishingUrl ==
    /\ DetailsParsed /\ ~ret.is_suspicious
    /\ is_phishing_url(arg) = TRUE

----------------------------------------------------------------------------
(* What alone makes a URL suspicious *)

IsAtLeastMedium(a) ==
    /\ a.risk_score >= 30
    /\ a.is_suspicious
    /\ a.risk_level \in {"MEDIUM", "HIGH", "CRITICAL"}

\* C28: every analysis whose host analysis reports is_ip also reports
\* has_numbers, has at least 30 points from host analysis alone, and so a
\* risk_score of 30 or more, is_suspicious, and a level of MEDIUM or above
C28_IpIsSuspicious ==
    \A a \in AllAnalyses :
        a.checks.domain_analysis.is_ip =>
            /\ a.checks.domain_analysis.has_numbers
            /\ a.checks.domain_analysis.risk_points >= 30
            /\ IsAtLeastMedium(a)

\* an IP address with https and nothing else against it: 30 points, all
\* from host analysis
C28_Witness ==
    /\ Analyzed
    /\ ret.checks.domain_analysis.is_ip
    /\ ret.checks.domain_analysis.risk_points = 30
    /\ ret.risk_score = 30 /\ ret.risk_level = "MEDIUM"

\* the findings only the except branches leave
DomainFellBack(d) ==
    d.risk_points = 20 /\ ~d.is_ip /\ ~d.has_numbers /\ ~d.has_hyphens
       /\ d.domain_length = 0

SslFellBack(s) == s.ssl_error # PyNone /\ s.risk_points = 5 /\ ~s.has_ssl

StructureFellBack(u) ==
    u.risk_points = 5 /\ u.path_depth = 0 /\ ~u.encoded_chars
       /\ ~u.has_query_params

\* C29: parsing fails in all of the parse-based checks or in none, and an
\* analysis of a string whose parsing fails has the fallback points 20, 0,
\* 5 and 5, so a risk_score of 30 or more, is_suspicious, and a level of
\* MEDIUM or above
C29_ParseFailureIsSuspicious ==
    \A a \in AllAnalyses :
        IsStr(a.url) =>
            /\ DomainFellBack(a.checks.domain_analysis) = Malformed(a.url)
            /\ SslFellBack(a.checks.ssl_check) = Malformed(a.url)
            /\ StructureFellBack(a.checks.url_structure) = Malformed(a.url)
            /\ Malformed(a.url) =>
                  /\ a.checks.typosquatting.risk_points = 0
                  /\ a.risk_score >= 20 + 0 + 5 + 5
                  /\ IsAtLeastMedium(a)

\* a string that cannot be parsed and has nothing else against it: 30
\* points
C29_Witness ==
    /\ Analyzed /\ Malformed(arg)
    /\ ret.checks.basic_patterns.risk_points = 0
    /\ ret.risk_score = 30 /\ ret.is_suspicious
=============================================================================
